---------------------------- MODULE Spec2Model ----------------------------
(***************************************************************************)
(* Verification model of the TagArena simulation core: Player physics and  *)
(* input (player.py), the collision / pickup / obstacle / boundary passes  *)
(* of Game.update (game.py), Platform effects (game_platform.py),          *)
(* Obstacle kinematics and push-out (obstacle.py), PowerUp (powerup.py)    *)
(* and Camera (camera.py).                                                 *)
(*                                                                         *)
(* Numbers.  The program computes in Python floats.  The model computes in *)
(* fixed point: a position is an integer number of 1/Scale pixels, a       *)
(* velocity an integer number of 1/Scale pixels per second, a time an      *)
(* integer number of milliseconds, the camera zoom an integer number of    *)
(* 1/ZScale.  A product that a float would round is truncated toward zero  *)
(* (Trunc).  int(...) conversions and pygame.Rect coordinates are whole    *)
(* pixels, as in the program.                                              *)
(***************************************************************************)
EXTENDS Integers, Sequences, FiniteSets

VARIABLES
    current_level,   \* Game.current_level
    players,         \* Game.players: sequence of Player records
    powerups,        \* Game.powerups: sequence of PowerUp records
    obstacles,       \* Game.obstacles: sequence of Obstacle records
    camera,          \* Game.camera: Camera record
    phase,           \* position inside Game.update (which call runs next)
    dt,              \* the dt (ms) Game.run passed to the current Game.update
    state,           \* Game.state: "playing" or "game_over"
    running,         \* FALSE once an exception has ended Game.run
    ticks,           \* number of Game.update calls started (bounded by MaxTicks)
    since_spawn,     \* ms since Game.last_powerup_spawn_time (counted up to the interval)
    tagged_ms,       \* per player: ms of cooldown counted since it was last tagged (-1: never)
    pass_tags,       \* per player: tag_player successes of the last collision pass
    pre_pass,        \* per player: x, y and vy at the start of the last collision pass
    at_input,        \* per player: jumps_left, on_ground and jump_key_was_pressed at the start of its last handle_input, and the down key it read
    picked,          \* the apply_powerup calls of the last pickup pass, in order: <<player, kind, power-up>>
    powerup_age      \* per player and kind: ms since apply_powerup (age) and ms of them in which the timers ran (run); -1: never applied

vars == <<current_level, players, powerups, obstacles, camera, phase, dt,
          state, running, ticks, since_spawn, tagged_ms, pass_tags, pre_pass,
          at_input, picked, powerup_age>>

-----------------------------------------------------------------------------
(* Fixed point                                                             *)

Scale == 1000
ZScale == 10000

Px(n) == n * Scale

Trunc(a, d) == IF a >= 0 THEN a \div d ELSE -((-a) \div d)

\* int(v) of a float holding v / Scale pixels
IntPx(v) == Trunc(v, Scale)

Max(a, b) == IF a >= b THEN a ELSE b
Min(a, b) == IF a <= b THEN a ELSE b
Abs(a) == IF a >= 0 THEN a ELSE -a

\* a * b / d truncated toward zero, for b >= 0 and d > 0, computed in two
\* parts so that no intermediate product leaves the 32-bit range
MulDiv(a, b, d) ==
    LET m == Abs(a)
        q == (m \div d) * b + ((m % d) * b) \div d
    IN  IF a >= 0 THEN q ELSE -q

\* integer square root (math: (dx**2 + dy**2)**0.5, truncated)
RECURSIVE SqrtBits(_, _, _)
SqrtBits(n, r, b) ==
    IF b = 0 THEN r
    ELSE IF (r + b) * (r + b) <= n THEN SqrtBits(n, r + b, b \div 2)
         ELSE SqrtBits(n, r, b \div 2)
ISqrt(n) == SqrtBits(n, 0, 16384)

\* the element of a one-element set: S is evaluated once and its element
\* is bound as a value
TheValue(S) == CHOOSE v \in S : TRUE

\* pygame.Rect: integer left, top, width, height
Rect(l, t, w, h) == [left |-> l, top |-> t, w |-> w, h |-> h]
Right(r) == r.left + r.w
Bottom(r) == r.top + r.h
CenterX(r) == r.left + r.w \div 2
CenterY(r) == r.top + r.h \div 2

\* pygame.Rect.colliderect: strict overlap, touching edges do not collide
colliderect(a, b) ==
    /\ a.left < Right(b)
    /\ Right(a) > b.left
    /\ a.top < Bottom(b)
    /\ Bottom(a) > b.top

-----------------------------------------------------------------------------
(* constants.py                                                            *)

SCREEN_WIDTH == 800
SCREEN_HEIGHT == 600
LEVEL_WIDTH == 1600
LEVEL_HEIGHT == 1200
PLAYER_RADIUS == 20
DEFAULT_SPEED == 380
DEFAULT_JUMP_FORCE == 400
\* TAGGER_SPEED_MULTIPLIER = 0.9, as a fraction of 100
TAGGER_SPEED_PCT == 90
\* POWERUP_SPAWN_INTERVAL = 12 seconds
POWERUP_SPAWN_INTERVAL == 12000
POWERUP_DURATION == 5000
POWERUP_DESPAWN_TIME == 8000
POWERUP_RADIUS == 15
POWERUP_MAX_COUNT == 1
POWERUP_TYPES == <<"speed", "shield", "super_jump", "invisible", "freeze">>
\* POWERUP_EFFECTS['speed'] = 1.8, as a fraction of 10
POWERUP_SPEED_X10 == 18
\* POWERUP_EFFECTS['freeze'] = 1.5 seconds
POWERUP_FREEZE_MS == 1500
PLATFORM_HEIGHT == 20
\* STICKY_SLOWDOWN = 0.6, JUMP_BOOST = 1.4, SPEED_BOOST = 1.3, as fractions of 10
STICKY_SLOWDOWN_X10 == 6
JUMP_BOOST_X10 == 14
SPEED_BOOST_X10 == 13
GRAVITY == 1200
\* AIR_RESISTANCE = 0.98, GROUND_FRICTION = 0.85, as fractions of 100
AIR_RESISTANCE_PCT == 98
GROUND_FRICTION_PCT == 85
MAX_FALL_SPEED == 500
TAG_COOLDOWN == 1000
SCORE_TO_WIN == 5

-----------------------------------------------------------------------------
(* Level tables: Game.create_platforms and Game.create_obstacles           *)

Plat(cx, cy, w, t) == [x |-> cx, y |-> cy, width |-> w, platform_type |-> t]

ClassicPlatforms ==
    << Plat(200, 500, 250, "regular"), Plat(600, 500, 250, "sticky"),
       Plat(150, 400, 200, "jump"), Plat(400, 350, 150, "passthrough"),
       Plat(650, 400, 200, "speed"), Plat(300, 200, 150, "regular"),
       Plat(500, 250, 150, "jump"), Plat(100, 300, 80, "speed"),
       Plat(700, 300, 80, "sticky"), Plat(400, 150, 100, "passthrough") >>

SkyIslandsPlatforms ==
    << Plat(150, 520, 120, "regular"), Plat(400, 520, 120, "regular"),
       Plat(650, 520, 120, "regular"), Plat(250, 420, 120, "jump"),
       Plat(550, 420, 120, "speed"), Plat(150, 320, 120, "passthrough"),
       Plat(400, 320, 120, "passthrough"), Plat(650, 320, 120, "jump"),
       Plat(250, 220, 100, "sticky"), Plat(550, 220, 100, "sticky"),
       Plat(400, 120, 120, "jump") >>

UrbanPlaygroundPlatforms ==
    << Plat(400, 550, 700, "regular"), Plat(200, 450, 200, "speed"),
       Plat(600, 450, 200, "speed"), Plat(400, 350, 350, "passthrough"),
       Plat(150, 250, 150, "jump"), Plat(650, 250, 150, "jump"),
       Plat(400, 150, 300, "sticky") >>

MazeRunnerPlatforms ==
    << Plat(400, 550, 700, "regular"), Plat(150, 480, 200, "passthrough"),
       Plat(650, 480, 200, "regular"), Plat(400, 430, 200, "sticky"),
       Plat(200, 380, 200, "regular"), Plat(600, 380, 200, "speed"),
       Plat(150, 330, 200, "jump"), Plat(400, 280, 200, "passthrough"),
       Plat(650, 330, 200, "regular"), Plat(300, 230, 150, "speed"),
       Plat(500, 230, 150, "jump"), Plat(400, 170, 350, "regular"),
       Plat(50, 400, 80, "sticky"), Plat(750, 400, 80, "sticky"),
       Plat(300, 300, 60, "sticky"), Plat(500, 300, 60, "sticky") >>

\* level_platforms of Game.create_platforms, for the levels of the model
level_platform_table ==
    [level \in {"Classic", "Sky Islands", "Urban Playground", "Maze Runner"} |->
        CASE level = "Classic" -> ClassicPlatforms
          [] level = "Sky Islands" -> SkyIslandsPlatforms
          [] level = "Urban Playground" -> UrbanPlaygroundPlatforms
          [] level = "Maze Runner" -> MazeRunnerPlatforms]

level_platforms(level) == level_platform_table[level]

\* Platform.__init__ appends the platform to game.platforms and
\* create_platforms appends it again: every platform is listed twice.
\* The list holds indices into level_platforms.
platform_list ==
    [level \in DOMAIN level_platform_table |->
        [k \in 1..(2 * Len(level_platforms(level))) |-> (k + 1) \div 2]]

platforms(level) == platform_list[level]

\* Platform.rect
PlatformRect(pl) ==
    Rect(pl.x - pl.width \div 2, pl.y - PLATFORM_HEIGHT \div 2, pl.width, PLATFORM_HEIGHT)

\* the rect of platform k of the level
platform_rects ==
    [level \in DOMAIN level_platform_table |->
        [k \in 1..Len(level_platforms(level)) |-> PlatformRect(level_platforms(level)[k])]]

\* Obstacle fields: x, y in 1/Scale px; vx, vy in 1/Scale px per frame;
\* rotation in 1/Scale degrees; current_cooldown in ms
Obst(cx, cy, t, w, h, dir, range, mspeed, bounce, rspeed) ==
    [ x |-> Px(cx), y |-> Px(cy), obstacle_type |-> t, width |-> w, height |-> h,
      original_x |-> cx, original_y |-> cy,
      movement_direction |-> dir, movement_range |-> range,
      vx |-> IF t = "moving" /\ dir = "horizontal" THEN mspeed ELSE 0,
      vy |-> IF t = "moving" /\ dir = "vertical" THEN mspeed ELSE 0,
      bounce_strength |-> bounce,
      rotation |-> 0, rotation_speed |-> rspeed,
      current_cooldown |-> 0 ]

Static(cx, cy, w, h) == Obst(cx, cy, "static", w, h, "horizontal", 100, 1000, 0, 0)
Bouncing(cx, cy, w, h, b) == Obst(cx, cy, "bouncing", w, h, "horizontal", 100, 1000, b, 0)
Moving(cx, cy, w, h, dir, range, ms) == Obst(cx, cy, "moving", w, h, dir, range, ms, 0, 0)
Rotating(cx, cy, w, h, rs) == Obst(cx, cy, "rotating", w, h, "horizontal", 100, 1000, 0, rs)
Damaging(cx, cy, w, h) == Obst(cx, cy, "damaging", w, h, "horizontal", 100, 1000, 0, 0)

ClassicObstacles ==
    << Static(400, 450, 30, 30), Static(300, 300, 40, 20),
       Static(500, 200, 20, 40) >>

SkyIslandsObstacles ==
    << Bouncing(220, 470, 50, 15, 18), Bouncing(580, 470, 50, 15, 18),
       Bouncing(400, 270, 50, 15, 18),
       Moving(300, 380, 30, 30, "horizontal", 120, 1000),
       Moving(500, 380, 30, 30, "horizontal", 120, 1000) >>

UrbanPlaygroundObstacles ==
    << Rotating(150, 350, 60, 10, 2000), Rotating(650, 350, 60, 10, -2000),
       Moving(400, 250, 40, 20, "vertical", 80, 1000),
       Moving(250, 350, 40, 20, "horizontal", 100, 1000),
       Moving(550, 350, 40, 20, "horizontal", 100, 1000) >>

MazeRunnerObstacles ==
    << Damaging(400, 350, 25, 25), Damaging(200, 265, 25, 25),
       Damaging(600, 265, 25, 25),
       Moving(400, 215, 30, 30, "horizontal", 150, 2000),
       Moving(550, 400, 30, 30, "vertical", 60, 1500),
       Rotating(400, 400, 50, 10, 3000) >>

\* level_obstacles of Game.create_obstacles, for the levels of the model
level_obstacle_table ==
    [level \in DOMAIN level_platform_table |->
        CASE level = "Classic" -> ClassicObstacles
          [] level = "Sky Islands" -> SkyIslandsObstacles
          [] level = "Urban Playground" -> UrbanPlaygroundObstacles
          [] level = "Maze Runner" -> MazeRunnerObstacles]

level_obstacles(level) == level_obstacle_table[level]

\* The levels of the tables above ("Obstacle Course" has an obstacle on a
\* circular path, computed with cos and sin, and is not part of the model)
Levels == DOMAIN level_platform_table

-----------------------------------------------------------------------------
(* Player (player.py)                                                      *)
(* x, y in 1/Scale px; vx, vy, speed, base_speed, jump_force in 1/Scale px *)
(* per second; tag_cooldown, frozen_timer, death_timer, damage_flash and   *)
(* the active_powerups timers in ms.  active_powerups maps a kind to its   *)
(* remaining time, 0 when the kind is not a key of the dict (an entry is   *)
(* deleted as soon as it is <= 0).  current_platform is an index into      *)
(* level_platforms, 0 for None.                                            *)

PowerupKinds == {"speed", "shield", "super_jump", "invisible", "freeze"}

NoKeys == [left |-> FALSE, right |-> FALSE, jump |-> FALSE, down |-> FALSE]

\* Player.update_tagger_status
update_tagger_status(p, is_tagger) ==
    LET bs == IF is_tagger THEN MulDiv(Px(DEFAULT_SPEED), TAGGER_SPEED_PCT, 100)
              ELSE Px(DEFAULT_SPEED)
    IN  [p EXCEPT !.is_tagger = is_tagger, !.base_speed = bs, !.speed = bs]

\* Player.__init__
NewPlayer(px, py, is_tagger) ==
    update_tagger_status(
      [ x |-> Px(px), y |-> Px(py), vx |-> 0, vy |-> 0,
        is_tagger |-> is_tagger, score |-> 0, tag_cooldown |-> 0,
        move_direction |-> 0, on_ground |-> FALSE, jumps_left |-> 2,
        jump_key_was_pressed |-> FALSE, current_platform |-> 0,
        on_sticky_platform |-> FALSE, on_jump_platform |-> FALSE,
        on_speed_platform |-> FALSE, passing_through |-> FALSE,
        active_powerups |-> [k \in PowerupKinds |-> 0],
        has_shield |-> FALSE, is_invisible |-> FALSE,
        is_frozen |-> FALSE, frozen_timer |-> 0,
        damage_flash |-> 0, is_damaged |-> FALSE,
        is_dying |-> FALSE, death_timer |-> 0,
        base_speed |-> Px(DEFAULT_SPEED), speed |-> Px(DEFAULT_SPEED),
        jump_force |-> Px(DEFAULT_JUMP_FORCE) ],
      is_tagger)

\* Player.update_speed
update_speed(p) ==
    [p EXCEPT !.speed =
        IF p.on_sticky_platform THEN MulDiv(p.base_speed, STICKY_SLOWDOWN_X10, 10)
        ELSE IF p.on_speed_platform THEN MulDiv(p.base_speed, SPEED_BOOST_X10, 10)
        ELSE p.base_speed]

\* the first jump (two jumps left) gets the jump-platform boost
JumpBoosted(p, jl) == jl = 2 /\ p.on_jump_platform

\* a jump with no jumps left
CanAlwaysJump(jl) == TRUE

\* the jump is taken only with a jump left
CanJump(jl) == jl > 0

\* jumps restored on every tick
JumpsAlwaysReset(p) == 2

\* Player.handle_input: "if self.on_ground: self.jumps_left = 2"
JumpsAtInput(p) == IF p.on_ground THEN 2 ELSE p.jumps_left

\* an input handler that jumps whenever the jump key is down
handle_input_while_held(p, keys) ==
    LET md == IF keys.right THEN 1 ELSE IF keys.left THEN -1 ELSE 0
        jump_key_just_pressed == keys.jump
        jl == JumpsAtInput(p)
        s1 == IF JumpBoosted(p, jl) THEN MulDiv(p.jump_force, JUMP_BOOST_X10, 10)
              ELSE p.jump_force
        jump_strength == IF jl = 1 THEN MulDiv(s1, 8, 10) ELSE s1
        q == [p EXCEPT !.move_direction = md,
                       !.jumps_left = jl,
                       !.jump_key_was_pressed = keys.jump,
                       !.passing_through = keys.down]
    IN  IF jump_key_just_pressed /\ CanJump(jl)
        THEN [q EXCEPT !.vy = -jump_strength,
                       !.jumps_left = jl - 1,
                       !.on_ground = FALSE,
                       !.vx = IF md # 0 THEN @ + md * MulDiv(p.speed, 1, 10) ELSE @]
        ELSE q

\* Player.handle_input; keys is the pressed state of the player's four keys
handle_input(p, keys) ==
    LET md == IF keys.right THEN 1 ELSE IF keys.left THEN -1 ELSE 0
        jump_key_just_pressed == keys.jump /\ ~p.jump_key_was_pressed
        jl == JumpsAtInput(p)
        s1 == IF JumpBoosted(p, jl) THEN MulDiv(p.jump_force, JUMP_BOOST_X10, 10)
              ELSE p.jump_force
        jump_strength == IF jl = 1 THEN MulDiv(s1, 8, 10) ELSE s1
        q == [p EXCEPT !.move_direction = md,
                       !.jumps_left = jl,
                       !.jump_key_was_pressed = keys.jump,
                       !.passing_through = keys.down]
    IN  IF jump_key_just_pressed /\ CanJump(jl)
        THEN [q EXCEPT !.vy = -jump_strength,
                       !.jumps_left = jl - 1,
                       !.on_ground = FALSE,
                       !.vx = IF md # 0 THEN @ + md * MulDiv(p.speed, 1, 10) ELSE @]
        ELSE q

\* Player.enforce_boundaries (level-sized box)
enforce_boundaries(p) ==
    LET min_x == Px(PLAYER_RADIUS)
        max_x == Px(LEVEL_WIDTH - PLAYER_RADIUS)
        min_y == Px(PLAYER_RADIUS)
        max_y == Px(LEVEL_HEIGHT - PLAYER_RADIUS)
        q == IF p.x < min_x THEN [p EXCEPT !.x = min_x, !.vx = Max(@, 0)]
             ELSE IF p.x > max_x THEN [p EXCEPT !.x = max_x, !.vx = Min(@, 0)]
             ELSE p
    IN  IF q.y < min_y THEN [q EXCEPT !.y = min_y, !.vy = Max(@, 0)]
        ELSE IF q.y > max_y THEN [q EXCEPT !.y = max_y, !.vy = Min(@, 0)]
        ELSE q

\* Player.get_rect: rect.center = (int(x), int(y)) on a 40 x 40 rect
get_rect(p) ==
    Rect(IntPx(p.x) - PLAYER_RADIUS, IntPx(p.y) - PLAYER_RADIUS,
         2 * PLAYER_RADIUS, 2 * PLAYER_RADIUS)

\* Player.take_damage
take_damage(p) ==
    IF p.damage_flash > 0 \/ p.has_shield THEN p
    ELSE [p EXCEPT !.damage_flash = 400, !.is_damaged = TRUE]

\* a dying process that starts again at every touch of the lethal floor
start_dying_again(p) == [p EXCEPT !.is_dying = TRUE, !.death_timer = 3000]

\* Player.start_dying
start_dying(p) ==
    IF p.is_dying THEN p
    ELSE [p EXCEPT !.is_dying = TRUE, !.death_timer = 3000]

\* Player.respawn: the platforms whose top is in the top third of the screen
top_platforms(level) ==
    {k \in 1..Len(level_platforms(level)) :
        platform_rects[level][k].top < SCREEN_HEIGHT \div 3}

\* the values random.choice / random.randint can return in Player.respawn:
\* a top platform, or an x when the level has no top platform
RespawnChoices(level) ==
    IF top_platforms(level) # {} THEN top_platforms(level)
    ELSE 100..(SCREEN_WIDTH - 100)

\* Player.respawn, with the random choice c
respawn(p, level, c) ==
    LET r == platform_rects[level][c]
        onTop == top_platforms(level) # {}
    IN  [p EXCEPT !.x = IF onTop THEN Px(CenterX(r)) ELSE Px(c),
                  !.y = IF onTop THEN Px(r.top - PLAYER_RADIUS) ELSE Px(100),
                  !.vx = 0, !.vy = 0,
                  !.is_dying = FALSE, !.death_timer = 0,
                  !.damage_flash = 1000, !.is_damaged = TRUE]

\* timers that never run
update_powerups_never(p, dts) == p

\* Player.update_powerups
update_powerups(p, dts) ==
    LET left(k) == IF p.active_powerups[k] > 0
                   THEN Max(p.active_powerups[k] - dts, 0) ELSE 0
        expired(k) == p.active_powerups[k] > 0 /\ left(k) = 0
    IN  [p EXCEPT !.active_powerups = [k \in PowerupKinds |-> left(k)],
                  !.has_shield = IF expired("shield") THEN FALSE ELSE @,
                  !.is_invisible = IF expired("invisible") THEN FALSE ELSE @]

\* dt_seconds = dt if dt < 1 else dt / 1000, on a dt given in ms: below one
\* second the value is the same time; from one second on it is a
\* thousandth of it (truncated to whole ms)
dt_seconds(d) == IF d < 1000 THEN d ELSE d \div 1000

\* Player.update, frozen branch: only the freeze timer runs
update_frozen(p, dts) ==
    LET ft == p.frozen_timer - dts
    IN  [p EXCEPT !.frozen_timer = ft, !.is_frozen = ~(ft <= 0)]

\* Player.update, dying branch.  c is the respawn choice, flash the outcome
\* of random.random() < 0.15.  The branch returns before the platform
\* flags are reset and before enforce_boundaries.
update_dying(p, dts, level, c, flash) ==
    LET t == p.death_timer - dts
        p1 == [p EXCEPT !.death_timer = t]
        p2 == IF t <= 0 THEN respawn(p1, level, c) ELSE p1
        p3 == IF flash THEN [p2 EXCEPT !.damage_flash = 100, !.is_damaged = TRUE]
              ELSE p2
        vx1 == MulDiv(p3.vx, 95, 100)
        vy1 == p3.vy + MulDiv(GRAVITY * dts, 1, 2)
    IN  [p3 EXCEPT !.vx = vx1, !.vy = vy1,
                   !.x = @ + MulDiv(vx1, dts, 2 * Scale),
                   !.y = @ + MulDiv(vy1, dts, 2 * Scale)]

\* the three platform-effect flags after the end of the normal update path
ResetFlags(p) ==
    [p EXCEPT !.on_ground = FALSE, !.on_sticky_platform = FALSE,
              !.on_jump_platform = FALSE, !.on_speed_platform = FALSE]

\* Player.update, normal path.  d is the raw dt in ms, dts is dt_seconds.
update_normal(p, d, dts) ==
    LET df == IF p.damage_flash > 0 THEN p.damage_flash - dts ELSE p.damage_flash
        p1 == [p EXCEPT !.damage_flash = df,
                        !.is_damaged = IF p.damage_flash > 0 /\ df <= 0 THEN FALSE ELSE @]
        vy1 == IF ~p.on_ground THEN p.vy + GRAVITY * dts ELSE p.vy
        vx1 == IF ~p.on_ground THEN MulDiv(p.vx, AIR_RESISTANCE_PCT, 100)
               ELSE MulDiv(p.vx, GROUND_FRICTION_PCT, 100)
        vx2 == IF p.on_sticky_platform THEN MulDiv(vx1, STICKY_SLOWDOWN_X10, 10)
               ELSE IF p.on_speed_platform THEN MulDiv(vx1, SPEED_BOOST_X10, 10)
               ELSE vx1
        ts0 == p.move_direction * p.speed
        target_speed == IF p.active_powerups["speed"] > 0
                        THEN MulDiv(ts0, POWERUP_SPEED_X10, 10) ELSE ts0
        vx3 == MulDiv(vx2, 8, 10) + MulDiv(target_speed, dts * 5, Scale)
        vy2 == Min(vy1, Px(MAX_FALL_SPEED))
        p2 == enforce_boundaries(
                [p1 EXCEPT !.vx = vx3, !.vy = vy2,
                           !.x = @ + MulDiv(vx3, dts, Scale),
                           !.y = @ + MulDiv(vy2, dts, Scale)])
        p3 == [p2 EXCEPT !.tag_cooldown = IF @ > 0 THEN @ - d ELSE @]
    IN  ResetFlags(update_powerups(p3, dts))

\* Player.update
update(p, d, level, c, flash) ==
    IF p.is_frozen THEN update_frozen(p, dt_seconds(d))
    ELSE IF p.is_dying THEN update_dying(p, dt_seconds(d), level, c, flash)
    ELSE update_normal(p, d, dt_seconds(d))

\* Player.can_tag
\* a tagger that may tag while its cooldown is still running
can_tag_during_cooldown(p) == p.is_tagger

\* Player.can_tag
can_tag(p) == p.is_tagger /\ p.tag_cooldown <= 0

\* a tagger that keeps its role after a tag
KeepsTaggerRole(p) == p

\* the tagger's own status after a successful tag, tag_player's
\* self.update_tagger_status(False)
TaggerAfterTag(p) == update_tagger_status(p, FALSE)

\* a tag that goes through a shield
tag_through_shield(ps, i, j) == can_tag(ps[i])

\* Player.tag_player(other), its condition: ps is the player list, i tags j
tag_succeeds(ps, i, j) == can_tag(ps[i]) /\ ~ps[j].has_shield

tag_player(ps, i, j) ==
    IF tag_succeeds(ps, i, j)
    THEN [ps EXCEPT ![i] = [TaggerAfterTag(ps[i]) EXCEPT !.score = @ + 1],
                    ![j] = [update_tagger_status(ps[j], TRUE) EXCEPT
                                !.tag_cooldown = TAG_COOLDOWN]]
    ELSE ps

\* a power-up that is entered in active_powerups without its flag
apply_powerup_without_flag(ps, i, k) ==
    [ps EXCEPT ![i] = [ps[i] EXCEPT !.active_powerups[k] = POWERUP_DURATION]]

\* Player.apply_powerup: player i of ps collects a power-up of kind k.
\* 'freeze' freezes the first player of the list other than i.
apply_powerup(ps, i, k) ==
    LET q == [ps EXCEPT ![i] =
                [ps[i] EXCEPT !.active_powerups[k] = POWERUP_DURATION,
                              !.has_shield = IF k = "shield" THEN TRUE ELSE @,
                              !.is_invisible = IF k = "invisible" THEN TRUE ELSE @]]
        other == IF i = 1 THEN 2 ELSE 1
    IN  IF k = "freeze" /\ Len(ps) >= 2
        THEN [q EXCEPT ![other] = [q[other] EXCEPT !.is_frozen = TRUE,
                                                  !.frozen_timer = POWERUP_FREEZE_MS]]
        ELSE q

-----------------------------------------------------------------------------
(* Platform.apply_effect and Game.check_collisions                         *)

\* Platform.apply_effect
apply_effect(pl, p) ==
    update_speed(
      [p EXCEPT !.on_sticky_platform = IF pl.platform_type = "sticky" THEN TRUE ELSE @,
                !.on_jump_platform = IF pl.platform_type = "jump" THEN TRUE ELSE @,
                !.on_speed_platform = IF pl.platform_type = "speed" THEN TRUE ELSE @])

\* a lethal floor whose damage ignores the shield and the damage flash
floor_always_damages(p, level) ==
    IF p.y >= Px(SCREEN_HEIGHT - PLAYER_RADIUS)
    THEN LET q == [p EXCEPT !.on_ground = TRUE,
                            !.y = Px(SCREEN_HEIGHT - PLAYER_RADIUS),
                            !.vy = 0]
         IN  IF level = "Sky Islands"
             THEN [start_dying(q) EXCEPT
                      !.damage_flash = 400, !.is_damaged = TRUE,
                      !.vy = -MulDiv(Px(DEFAULT_JUMP_FORCE), 3, 10)]
             ELSE q
    ELSE p

\* check_collisions, floor detection: the bottom of the screen is ground;
\* in Sky Islands it damages, starts the dying process and bounces
floor(p, level) ==
    IF p.y >= Px(SCREEN_HEIGHT - PLAYER_RADIUS)
    THEN LET q == [p EXCEPT !.on_ground = TRUE,
                            !.y = Px(SCREEN_HEIGHT - PLAYER_RADIUS),
                            !.vy = 0]
         IN  IF level = "Sky Islands"
             THEN [start_dying(take_damage(q)) EXCEPT
                      !.vy = -MulDiv(Px(DEFAULT_JUMP_FORCE), 3, 10)]
             ELSE q
    ELSE p

\* check_collisions, the landing test of one platform
is_landing(p, pr) ==
    /\ p.vy > 0
    /\ p.y + Px(PLAYER_RADIUS) > Px(pr.top)
    /\ p.y < Px(pr.top + 10)

\* a landing that does not put the player on top of the platform
land_without_snap(p, pr, k) ==
    [p EXCEPT !.on_ground = TRUE, !.vy = 0, !.current_platform = k]

\* check_collisions, "Player is on top of platform": platform k, rect pr
land_on(p, pr, k) ==
    [p EXCEPT !.on_ground = TRUE,
              !.y = Px(pr.top - PLAYER_RADIUS),
              !.vy = 0,
              !.current_platform = k]

\* a platform loop body in which passthrough platforms are always solid
collide_platform_solid(p, player_rect, level, k) ==
    LET pl == level_platforms(level)[k]
        pr == platform_rects[level][k]
    IN  IF ~colliderect(player_rect, pr) THEN p
        ELSE IF is_landing(p, pr)
             THEN apply_effect(pl, land_on(p, pr, k))
        ELSE IF p.y > Px(pr.top + 10)
             THEN IF p.x < Px(pr.left)
                  THEN [p EXCEPT !.x = Px(pr.left - PLAYER_RADIUS), !.vx = 0]
                  ELSE IF p.x > Px(Right(pr))
                  THEN [p EXCEPT !.x = Px(Right(pr) + PLAYER_RADIUS), !.vx = 0]
                  ELSE p
        ELSE p

\* check_collisions, body of the platform loop for platform k of the level.
\* player_rect is the rect taken before the floor test and the loop; it is
\* not refreshed when the loop moves the player.
collide_platform(p, player_rect, level, k) ==
    LET pl == level_platforms(level)[k]
        pr == platform_rects[level][k]
    IN  IF pl.platform_type = "passthrough" /\ p.passing_through THEN p
        ELSE IF ~colliderect(player_rect, pr) THEN p
        ELSE IF is_landing(p, pr)
             THEN apply_effect(pl, land_on(p, pr, k))
        ELSE IF p.y > Px(pr.top + 10)
             THEN IF p.x < Px(pr.left)
                  THEN [p EXCEPT !.x = Px(pr.left - PLAYER_RADIUS), !.vx = 0]
                  ELSE IF p.x > Px(Right(pr))
                  THEN [p EXCEPT !.x = Px(Right(pr) + PLAYER_RADIUS), !.vx = 0]
                  ELSE p
        ELSE p

\* check_collisions, the platform loop over entries lo..hi of the list, in
\* list order (the range is split in two halves run one after the other)
RECURSIVE platform_loop(_, _, _, _, _)
platform_loop(p, player_rect, level, lo, hi) ==
    IF lo > hi THEN p
    ELSE IF lo = hi THEN collide_platform(p, player_rect, level, platforms(level)[lo])
    ELSE TheValue({ platform_loop(q, player_rect, level, (lo + hi) \div 2 + 1, hi) :
                      q \in {platform_loop(p, player_rect, level, lo, (lo + hi) \div 2)} })

\* check_collisions, second loop, for one player
collide_player(p, level) ==
    TheValue({ platform_loop(q, get_rect(p), level, 1, Len(platforms(level))) :
                 q \in {floor(p, level)} })

\* the pairs (i, j), i < j, in the order of the tagging loops
RECURSIVE PairsFrom(_, _, _)
PairsFrom(i, j, n) ==
    IF i >= n THEN << >>
    ELSE IF j > n THEN PairsFrom(i + 1, i + 2, n)
    ELSE << <<i, j>> >> \o PairsFrom(i, j + 1, n)
Pairs(n) == PairsFrom(1, 2, n)

\* the tagging test without its elif branch: only the first player of a
\* pair tags
tag_call_first_only(ps, i, j) ==
    IF colliderect(get_rect(ps[i]), get_rect(ps[j])) /\ ps[i].is_tagger /\ can_tag(ps[i])
    THEN <<i, j>> ELSE <<0, 0>>

\* check_collisions, body of the tagging loops for the pair (i, j):
\* the tagger and the tagged of the call made, <<0, 0>> when none is made
tag_call(ps, i, j) ==
    IF ~colliderect(get_rect(ps[i]), get_rect(ps[j])) THEN <<0, 0>>
    ELSE IF ps[i].is_tagger /\ can_tag(ps[i]) THEN <<i, j>>
    ELSE IF ps[j].is_tagger /\ can_tag(ps[j]) THEN <<j, i>>
    ELSE <<0, 0>>

\* st = [ps, tags, gms]: the players, the tags each player has made in this
\* pass, and for each player the cooldown ms counted since it was tagged.
\* One pair of the tagging loops:
tag_step(st, i, j) ==
    LET c == tag_call(st.ps, i, j)
    IN  IF c[1] # 0 /\ tag_succeeds(st.ps, c[1], c[2])
        THEN [ps |-> tag_player(st.ps, c[1], c[2]),
              tags |-> [st.tags EXCEPT ![c[1]] = @ + 1],
              gms |-> [st.gms EXCEPT ![c[2]] = 0]]
        ELSE st

\* check_collisions, the tagging loops over pairs lo..hi of prs, in order
RECURSIVE tag_loop(_, _, _, _)
tag_loop(st, prs, lo, hi) ==
    IF lo > hi THEN st
    ELSE TheValue({ tag_loop(q, prs, lo + 1, hi) :
                      q \in {tag_step(st, prs[lo][1], prs[lo][2])} })

\* Game.check_collisions on the player list
check_collisions(ps, level, gms) ==
    LET landed == [i \in 1..Len(ps) |->
                      collide_player([ps[i] EXCEPT !.on_ground = FALSE], level)]
    IN  TheValue({ tag_loop([ps |-> q, tags |-> [i \in 1..Len(ps) |-> 0], gms |-> gms],
                            Pairs(Len(ps)), 1, Len(Pairs(Len(ps)))) :
                     q \in {landed} })

-----------------------------------------------------------------------------
(* PowerUp (powerup.py) and the power-up passes of Game                    *)
(* A PowerUp is [x, y, type, lifetime, cy]: x, y whole px, lifetime in ms, *)
(* cy = int(y + bob_offset), the y of the centre of its rect.              *)

\* PowerUp.__init__
NewPowerUp(px, py, k) ==
    [x |-> px, y |-> py, type |-> k, lifetime |-> POWERUP_DESPAWN_TIME, cy |-> py]

\* PowerUp.get_rect
powerup_rect(u) ==
    Rect(u.x - POWERUP_RADIUS, u.cy - POWERUP_RADIUS,
         2 * POWERUP_RADIUS, 2 * POWERUP_RADIUS)

\* PowerUp.update; bob is int(y + bob_offset) - y for the bob_offset that
\* the sine of the wall clock gives
powerup_update(u, d, bob) ==
    [u EXCEPT !.lifetime = @ - dt_seconds(d), !.cy = u.y + bob]

\* Game.update_powerups: update every power-up, drop the expired ones
RECURSIVE game_update_powerups(_, _, _)
game_update_powerups(us, d, bob) ==
    IF us = << >> THEN << >>
    ELSE LET u == powerup_update(Head(us), d, bob)
         IN  (IF u.lifetime <= 0 THEN << >> ELSE <<u>>)
             \o game_update_powerups(Tail(us), d, bob)

\* Game.spawn_powerups, the position test: at least 150 px from every player
valid_position(ps, px, py) ==
    \A i \in 1..Len(ps) :
        LET dx == px - IntPx(ps[i].x)
            dy == py - IntPx(ps[i].y)
        IN  dx * dx + dy * dy >= 150 * 150

\* Game.spawn_powerups.  The interval test reads the wall clock: sp is
\* << >> when the interval has not passed (or no attempt found a valid
\* position), else <<x, y, type>> as drawn by random.
spawn_powerups(us, ps, sp) ==
    IF sp # << >> /\ Len(us) < POWERUP_MAX_COUNT /\ valid_position(ps, sp[1], sp[2])
    THEN Append(us, NewPowerUp(sp[1], sp[2], sp[3]))
    ELSE us

\* Game.check_powerup_collisions, inner loop of player i over the
\* power-ups from the last to the first; st = [ps, us, got], got being the
\* apply_powerup calls made so far: <<player, kind, power-up>>
\* a pickup that leaves the power-up in the list
pickup_without_pop(st, i, player_rect, n) ==
    IF colliderect(player_rect, powerup_rect(st.us[n]))
    THEN [ps |-> apply_powerup(st.ps, i, st.us[n].type),
          us |-> st.us,
          got |-> Append(st.got, <<i, st.us[n].type, st.us[n]>>)]
    ELSE st

pickup_step(st, i, player_rect, n) ==
    IF colliderect(player_rect, powerup_rect(st.us[n]))
    THEN [ps |-> apply_powerup(st.ps, i, st.us[n].type),
          us |-> [m \in 1..(Len(st.us) - 1) |->
                     IF m < n THEN st.us[m] ELSE st.us[m + 1]],
          got |-> Append(st.got, <<i, st.us[n].type, st.us[n]>>)]
    ELSE st

RECURSIVE pickup_loop(_, _, _, _)
pickup_loop(st, i, player_rect, n) ==
    IF n < 1 THEN st
    ELSE TheValue({ pickup_loop(q, i, player_rect, n - 1) :
                      q \in {pickup_step(st, i, player_rect, n)} })

RECURSIVE check_powerup_collisions(_, _)
check_powerup_collisions(st, i) ==
    IF i > Len(st.ps) THEN st
    ELSE TheValue({ check_powerup_collisions(q, i + 1) :
                      q \in {pickup_loop(st, i, get_rect(st.ps[i]), Len(st.us))} })

-----------------------------------------------------------------------------
(* Obstacle (obstacle.py) and Game.check_obstacle_collisions               *)

\* Obstacle.update: d is the raw dt in ms
obstacle_update(o, d) ==
    IF o.obstacle_type = "moving" /\ o.movement_direction = "horizontal"
    THEN LET nx == o.x + MulDiv(o.vx * 60, d, Scale)
         IN  [o EXCEPT !.x = nx,
                       !.vx = IF Abs(nx - Px(o.original_x)) > Px(o.movement_range)
                              THEN -@ ELSE @]
    ELSE IF o.obstacle_type = "moving" /\ o.movement_direction = "vertical"
    THEN LET ny == o.y + MulDiv(o.vy * 60, d, Scale)
         IN  [o EXCEPT !.y = ny,
                       !.vy = IF Abs(ny - Px(o.original_y)) > Px(o.movement_range)
                              THEN -@ ELSE @]
    ELSE IF o.obstacle_type = "rotating"
    THEN [o EXCEPT !.rotation = (@ + MulDiv(o.rotation_speed * 60, d, Scale)) % (360 * Scale)]
    ELSE IF o.obstacle_type = "damaging"
    THEN [o EXCEPT !.current_cooldown = IF @ > 0 THEN @ - d ELSE @]
    ELSE o

\* Obstacle.get_rect: Rect(x - width/2, y - height/2, width, height), the
\* float corners truncated by pygame
obstacle_rect(o) ==
    Rect(IntPx(o.x - o.width * (Scale \div 2)), IntPx(o.y - o.height * (Scale \div 2)),
         o.width, o.height)

\* Obstacle.apply_effect, the push out of the obstacle along the smallest
\* overlap; bouncing is TRUE in the side branch of a bouncing obstacle
push_out(o, p, bouncing) ==
    LET orect == obstacle_rect(o)
        prect == get_rect(p)
        left_overlap == Right(orect) - prect.left
        right_overlap == Right(prect) - orect.left
        top_overlap == Bottom(orect) - prect.top
        bottom_overlap == Bottom(prect) - orect.top
        min_overlap == Min(Min(left_overlap, right_overlap),
                           Min(top_overlap, bottom_overlap))
    IN  IF min_overlap = left_overlap
        THEN [p EXCEPT !.x = Px(Right(orect) + PLAYER_RADIUS), !.vx = Max(0, @)]
        ELSE IF min_overlap = right_overlap
        THEN [p EXCEPT !.x = Px(orect.left - PLAYER_RADIUS), !.vx = Min(0, @)]
        ELSE IF bouncing
        THEN IF min_overlap = bottom_overlap /\ p.vy < 0
             THEN [p EXCEPT !.y = Px(Bottom(orect) + PLAYER_RADIUS), !.vy = 0]
             ELSE p
        ELSE IF min_overlap = top_overlap
        THEN [p EXCEPT !.y = Px(Bottom(orect) + PLAYER_RADIUS), !.vy = Max(0, @)]
        ELSE [p EXCEPT !.y = Px(orect.top - PLAYER_RADIUS), !.vy = Min(0, @)]

\* a landing on the obstacle that stops the fall without a bounce
land_without_bounce(o, p) ==
    [p EXCEPT !.y = Px(obstacle_rect(o).top - PLAYER_RADIUS), !.vy = 0]

\* Obstacle.apply_effect, top collision with a bouncing obstacle
bounce_off(o, p) ==
    [p EXCEPT !.y = Px(obstacle_rect(o).top - PLAYER_RADIUS),
              !.vy = -Px(o.bounce_strength)]

\* Obstacle.apply_effect on the player
obstacle_apply_effect(o, p) ==
    IF o.obstacle_type # "bouncing" THEN push_out(o, p, FALSE)
    ELSE IF p.vy > 0 /\ Bottom(get_rect(p)) <= obstacle_rect(o).top + 10
    THEN bounce_off(o, p)
    ELSE push_out(o, p, TRUE)

\* Obstacle.apply_effect calls player.take_damage(self.damage) for a
\* damaging obstacle whose cooldown has run out; take_damage takes no
\* argument, so the call raises TypeError after the push: Game.update is
\* abandoned there and the exception ends Game.run
raises(o) == o.obstacle_type = "damaging" /\ o.current_cooldown <= 0

\* st = [ps, ok, rect]: the players, whether no exception was raised, and
\* the rect object of the player in hand (refreshed by the get_rect call at
\* the start of each apply_effect).  Obstacle k against player i:
obstacle_step(st, obs, i, k) ==
    IF ~st.ok THEN st
    ELSE IF colliderect(st.rect, obstacle_rect(obs[k]))
    THEN [ps |-> [st.ps EXCEPT ![i] = obstacle_apply_effect(obs[k], st.ps[i])],
          ok |-> ~raises(obs[k]),
          rect |-> get_rect(st.ps[i])]
    ELSE st

\* Game.check_obstacle_collisions, inner loop of player i over obstacles k..
RECURSIVE obstacle_loop(_, _, _, _)
obstacle_loop(st, obs, i, k) ==
    IF k > Len(obs) THEN st
    ELSE TheValue({ obstacle_loop(q, obs, i, k + 1) : q \in {obstacle_step(st, obs, i, k)} })

\* Game.check_obstacle_collisions, outer loop from player i on
RECURSIVE player_obstacle_loop(_, _, _)
player_obstacle_loop(st, obs, i) ==
    IF i > Len(st.ps) \/ ~st.ok THEN st
    ELSE TheValue({ player_obstacle_loop(q, obs, i + 1) :
                      q \in {obstacle_loop([st EXCEPT !.rect = get_rect(st.ps[i])],
                                            obs, i, 1)} })

check_obstacle_collisions(ps, obs) ==
    player_obstacle_loop([ps |-> ps, ok |-> TRUE, rect |-> get_rect(ps[1])], obs, 1)

\* a final pass that clamps to the level instead of the screen
boundaries_of_level(p) == enforce_boundaries(p)

\* Game.check_player_boundaries, for one player (screen-sized box)
check_player_boundaries(p) ==
    LET min_x == Px(PLAYER_RADIUS)
        max_x == Px(SCREEN_WIDTH - PLAYER_RADIUS)
        min_y == Px(PLAYER_RADIUS)
        max_y == Px(SCREEN_HEIGHT - PLAYER_RADIUS)
        q == IF p.x < min_x THEN [p EXCEPT !.x = min_x, !.vx = Max(@, 0)]
             ELSE IF p.x > max_x THEN [p EXCEPT !.x = max_x, !.vx = Min(@, 0)]
             ELSE p
    IN  IF q.y < min_y THEN [q EXCEPT !.y = min_y, !.vy = Max(@, 0)]
        ELSE IF q.y > max_y THEN [q EXCEPT !.y = max_y, !.vy = Min(@, 0)]
        ELSE q

-----------------------------------------------------------------------------
(* Camera (camera.py)                                                      *)
(* state is the pygame.Rect [left, top, w, h] in whole px; zoom_level and  *)
(* target_zoom are in 1/ZScale.                                            *)

\* a / b truncated toward zero, for any signs, b # 0
TDiv(a, b) ==
    IF (a >= 0) = (b > 0) THEN Abs(a) \div Abs(b) ELSE -(Abs(a) \div Abs(b))

\* x * num / den truncated toward zero for num of any sign, den > 0
MulDivS(a, num, den) ==
    IF num >= 0 THEN MulDiv(a, num, den) ELSE -MulDiv(a, -num, den)

\* x * num / den truncated toward zero for den of any sign, num >= 0
MulDivD(a, num, den) ==
    IF den > 0 THEN MulDiv(a, num, den) ELSE -MulDiv(a, num, -den)

min_zoom == ZScale \div 2
max_zoom == (3 * ZScale) \div 2

\* Camera.__init__(LEVEL_WIDTH, LEVEL_HEIGHT)
NewCamera ==
    [ state |-> Rect(0, 0, LEVEL_WIDTH, LEVEL_HEIGHT),
      zoom_level |-> ZScale, target_zoom |-> ZScale ]

\* Camera.update: the largest distance between two players, in whole px
RECURSIVE max_distance(_, _, _)
max_distance(ps, prs, n) ==
    IF n > Len(prs) THEN 0
    ELSE LET dx == IntPx(ps[prs[n][1]].x - ps[prs[n][2]].x)
             dy == IntPx(ps[prs[n][1]].y - ps[prs[n][2]].y)
         IN  Max(ISqrt(dx * dx + dy * dy), max_distance(ps, prs, n + 1))

\* Camera.update: target_zoom = 400 / distance_factor, clamped
target_zoom(cam, ps) ==
    IF Len(ps) >= 2
    THEN LET distance_factor == Max(100, Min(max_distance(ps, Pairs(Len(ps)), 1), 700))
         IN  Max(min_zoom, Min(max_zoom, (400 * ZScale) \div distance_factor))
    ELSE cam.target_zoom

\* Camera.update: zoom_level += (target_zoom - zoom_level) * zoom_smooth * (60 * dt)
\* with zoom_smooth = 0.05; d is dt in ms.  The result is not clamped.
zoom_step(zoom, target, d) == zoom + MulDiv((target - zoom) * 3, d, 1000)

RECURSIVE SumX(_, _)
SumX(ps, n) == IF n = 0 THEN 0 ELSE ps[n].x + SumX(ps, n - 1)
RECURSIVE SumY(_, _)
SumY(ps, n) == IF n = 0 THEN 0 ELSE ps[n].y + SumY(ps, n - 1)

\* SCREEN_WIDTH / zoom_level and SCREEN_HEIGHT / zoom_level in 1/Scale px
view_size(screen, zoom) == MulDivD(screen * ZScale, Scale, zoom)

\* Camera.update(players, dt) up to the zoom step: position_smooth * 60 = 6
camera_move(cam, ps, d) ==
    LET target_x == TDiv(SumX(ps, Len(ps)), Len(ps))
        target_y == TDiv(SumY(ps, Len(ps)), Len(ps))
        cx == cam.state.left + TDiv(cam.state.w, 2)
        cy == cam.state.top + TDiv(cam.state.h, 2)
        ncx == IntPx(Px(cx) + MulDiv((target_x - Px(cx)) * 6, d, Scale))
        ncy == IntPx(Px(cy) + MulDiv((target_y - Px(cy)) * 6, d, Scale))
        tz == target_zoom(cam, ps)
    IN  [ state |-> [cam.state EXCEPT !.left = ncx - TDiv(cam.state.w, 2),
                                      !.top = ncy - TDiv(cam.state.h, 2)],
          zoom_level |-> zoom_step(cam.zoom_level, tz, d),
          target_zoom |-> tz ]

\* Camera.update, the end: the view size and the clamp of the view corner.
\* With zoom_level = 0 the division raises ZeroDivisionError.
camera_fit(cam) ==
    LET view_w == view_size(SCREEN_WIDTH, cam.zoom_level)
        view_h == view_size(SCREEN_HEIGHT, cam.zoom_level)
    IN  [cam EXCEPT !.state =
            Rect(IntPx(Max(0, Min(Px(cam.state.left), Px(LEVEL_WIDTH) - view_w))),
                 IntPx(Max(0, Min(Px(cam.state.top), Px(LEVEL_HEIGHT) - view_h))),
                 IntPx(view_w), IntPx(view_h))]

\* Camera.update(players, dt)
camera_update(cam, ps, d) ==
    IF Len(ps) = 0 THEN cam
    ELSE TheValue({ IF c.zoom_level = 0 THEN c ELSE camera_fit(c) :
                      c \in {camera_move(cam, ps, d)} })

\* Camera.apply_pos on one coordinate: (x - state.left) * zoom_level, for a
\* world coordinate x in 1/Scale px; the result is in 1/Scale px
apply_pos(cam_left, zoom, x) == MulDivS(x - Px(cam_left), zoom, ZScale)

\* a reverse transform that leaves the camera offset out
reverse_apply_without_offset(cam_left, zoom, sx) == MulDivD(sx, ZScale, zoom)

\* Camera.reverse_apply on one coordinate: screen_x / zoom_level + state.left
reverse_apply(cam_left, zoom, sx) == MulDivD(sx, ZScale, zoom) + Px(cam_left)

-----------------------------------------------------------------------------
(* Game.reset_game, Game.update and Game.handle_events                     *)

\* Game.reset_game: the players at the x drawn by random.randint (xs) and
\* y = SCREEN_HEIGHT // 2; player 1 is the tagger
reset_players(xs) ==
    [i \in 1..Len(xs) |-> NewPlayer(xs[i], SCREEN_HEIGHT \div 2, i = 1)]

\* the ranges of random.randint in reset_game for players 1 to 4
SpawnRange(i) ==
    CASE i = 1 -> 100..(SCREEN_WIDTH \div 4)
      [] i = 2 -> (SCREEN_WIDTH \div 4 + 50)..(SCREEN_WIDTH \div 2)
      [] i = 3 -> (SCREEN_WIDTH \div 2 + 50)..((3 * SCREEN_WIDTH) \div 4)
      [] i = 4 -> ((3 * SCREEN_WIDTH) \div 4 + 50)..(SCREEN_WIDTH - 100)

\* no apply_powerup call yet
NoAge == [age |-> -1, run |-> -1]

\* the time since apply_powerup after an update of d ms of player p: the
\* timers run in the normal path of Player.update only
AgeAfterUpdate(a, p, d) ==
    IF a.age < 0 THEN a
    ELSE [age |-> Min(a.age + d, POWERUP_DURATION),
          run |-> IF p.is_frozen \/ p.is_dying THEN a.run
                  ELSE Min(a.run + dt_seconds(d), POWERUP_DURATION)]

\* the time since apply_powerup after the calls got of a pickup pass
AgeAfterPickup(ages, got) ==
    [i \in DOMAIN ages |-> [k \in PowerupKinds |->
        IF \E n \in 1..Len(got) : got[n][1] = i /\ got[n][2] = k
        THEN [age |-> 0, run |-> 0]
        ELSE ages[i][k]]]

\* x, y and vy of the players
BeforePass(ps) == [i \in 1..Len(ps) |-> [x |-> ps[i].x, y |-> ps[i].y, vy |-> ps[i].vy]]

\* the state after Game.reset_game in level with the spawn columns xs
AfterReset(level, xs) ==
    /\ current_level = level
    /\ players = reset_players(xs)
    /\ powerups = << >>
    /\ obstacles = level_obstacles(level)
    /\ camera = NewCamera
    /\ since_spawn = 0
    /\ tagged_ms = [i \in 1..Len(xs) |-> -1]
    /\ pass_tags = [i \in 1..Len(xs) |-> 0]
    /\ pre_pass = BeforePass(reset_players(xs))
    /\ at_input = [i \in 1..Len(xs) |-> [jumps_left |-> 2, on_ground |-> FALSE, jump_key_was_pressed |-> FALSE, down |-> FALSE]]
    /\ picked = << >>
    /\ powerup_age = [i \in 1..Len(xs) |-> [k \in PowerupKinds |-> NoAge]]

\* the players that take the dying branch of Player.update
Dying(ps) == {i \in 1..Len(ps) : ps[i].is_dying /\ ~ps[i].is_frozen}

\* Game.update, first loop: handle_input and update of every player.
\* KS: the key states tried (one record of four keys per player); DS: the
\* dt values tried (ms); FS: the outcomes tried for the random flash of a
\* dying player; maxTicks bounds the number of updates.
HandleInputAndUpdate(KS, DS, FS, maxTicks) ==
    /\ running /\ state = "playing" /\ phase = "input" /\ ticks < maxTicks
    /\ \E keys \in KS, d \in DS :
         \E c \in [Dying(players) -> RespawnChoices(current_level)],
            fl \in [Dying(players) -> FS] :
           /\ players' = [i \in 1..Len(players) |->
                   TheValue({ update(q, d, current_level,
                                     IF i \in Dying(players) THEN c[i] ELSE 0,
                                     IF i \in Dying(players) THEN fl[i] ELSE FALSE) :
                                q \in {handle_input(players[i], keys[i])} })]
           /\ tagged_ms' = [i \in 1..Len(players) |->
                   IF /\ tagged_ms[i] >= 0
                      /\ ~players[i].is_frozen /\ ~players[i].is_dying
                      /\ players[i].tag_cooldown > 0
                   THEN tagged_ms[i] + d ELSE tagged_ms[i]]
           /\ dt' = d
           /\ at_input' = [i \in 1..Len(players) |->
                   [jumps_left |-> players[i].jumps_left, on_ground |-> players[i].on_ground,
                    jump_key_was_pressed |-> players[i].jump_key_was_pressed,
                    down |-> keys[i].down]]
    /\ powerup_age' = [i \in 1..Len(players) |-> [k \in PowerupKinds |->
                          AgeAfterUpdate(powerup_age[i][k], players[i], dt')]]
    /\ ticks' = ticks + 1
    /\ phase' = "world"
    /\ UNCHANGED <<current_level, powerups, obstacles, camera, state, running,
                   since_spawn, pass_tags, pre_pass, picked>>

\* Game.update: update_powerups, spawn_powerups and the obstacles' update.
\* BS: the bob offsets tried; SS: the positions and kinds random may draw
\* for a new power-up.  spawn_powerups tries to spawn when more than
\* POWERUP_SPAWN_INTERVAL has passed on the wall clock since the last spawn.
UpdateWorld(BS, SS) ==
    /\ running /\ phase = "world"
    /\ LET elapsed == Min(since_spawn + dt, POWERUP_SPAWN_INTERVAL + 1)
       IN  \E bob \in (IF powerups = << >> THEN {0} ELSE BS),
              sp \in (IF elapsed > POWERUP_SPAWN_INTERVAL THEN SS ELSE {<< >>}) :
             LET us == game_update_powerups(powerups, dt, bob)
             IN  /\ powerups' = spawn_powerups(us, players, sp)
                 /\ since_spawn' = IF powerups' # us THEN 0 ELSE elapsed
    /\ obstacles' = [k \in 1..Len(obstacles) |-> obstacle_update(obstacles[k], dt)]
    /\ phase' = "collide"
    /\ UNCHANGED <<current_level, players, camera, dt, state, running, ticks,
                   tagged_ms, pass_tags, pre_pass, at_input, picked, powerup_age>>

\* Game.update: check_collisions
CheckCollisions ==
    /\ running /\ phase = "collide"
    /\ \E r \in {check_collisions(players, current_level, tagged_ms)} :
           /\ players' = r.ps
           /\ pass_tags' = r.tags
           /\ tagged_ms' = r.gms
    /\ pre_pass' = BeforePass(players)
    /\ phase' = "pickup"
    /\ UNCHANGED <<current_level, powerups, obstacles, camera, dt, state, running, ticks,
                   since_spawn, at_input, picked, powerup_age>>

\* Game.update: check_powerup_collisions
CheckPowerupCollisions ==
    /\ running /\ phase = "pickup"
    /\ \E r \in {check_powerup_collisions([ps |-> players, us |-> powerups, got |-> << >>], 1)} :
           /\ players' = r.ps
           /\ powerups' = r.us
           /\ picked' = r.got
           /\ powerup_age' = AgeAfterPickup(powerup_age, r.got)
    /\ phase' = "obstacle"
    /\ UNCHANGED <<current_level, obstacles, camera, dt, state, running, ticks,
                   since_spawn, tagged_ms, pass_tags, pre_pass, at_input>>

\* Game.update: check_obstacle_collisions; a TypeError raised inside it
\* ends the update and the program
CheckObstacleCollisions ==
    /\ running /\ phase = "obstacle"
    /\ \E r \in {check_obstacle_collisions(players, obstacles)} :
           /\ players' = r.ps
           /\ running' = r.ok
           /\ phase' = IF r.ok THEN "bounds" ELSE "obstacle"
    /\ UNCHANGED <<current_level, powerups, obstacles, camera, dt, state, ticks,
                   since_spawn, tagged_ms, pass_tags, pre_pass, at_input, picked, powerup_age>>

\* Game.update: check_player_boundaries
CheckPlayerBoundaries ==
    /\ running /\ phase = "bounds"
    /\ players' = [i \in 1..Len(players) |-> check_player_boundaries(players[i])]
    /\ phase' = "camera"
    /\ UNCHANGED <<current_level, powerups, obstacles, camera, dt, state, running,
                   ticks, since_spawn, tagged_ms, pass_tags, pre_pass, at_input, picked, powerup_age>>

\* Game.update: camera.update(players, dt); a ZeroDivisionError raised
\* inside it ends the update and the program
CameraUpdate ==
    /\ running /\ phase = "camera"
    /\ \E c \in {camera_update(camera, players, dt)} :
           /\ camera' = c
           /\ running' = (c.zoom_level # 0)
           /\ phase' = IF c.zoom_level # 0 THEN "end" ELSE "camera"
    /\ UNCHANGED <<current_level, players, powerups, obstacles, dt, state, ticks,
                   since_spawn, tagged_ms, pass_tags, pre_pass, at_input, picked, powerup_age>>

\* Game.check_game_over
check_game_over(ps) == \E i \in 1..Len(ps) : ps[i].score >= SCORE_TO_WIN

\* Game.update: check_game_over and update_round_timer.  The round timer
\* reads the wall clock: TS holds the outcomes tried for "time is up".
EndOfUpdate(TS) ==
    /\ running /\ phase = "end"
    /\ \E time_up \in TS :
         state' = IF check_game_over(players) \/ time_up THEN "game_over" ELSE "playing"
    /\ phase' = "input"
    /\ UNCHANGED <<current_level, players, powerups, obstacles, camera, dt, running,
                   ticks, since_spawn, tagged_ms, pass_tags, pre_pass, at_input, picked, powerup_age>>

-----------------------------------------------------------------------------
(* Specification Spec: rounds from reset_game and rounds in progress,      *)
(* updated with a few key states and frame times; restart from the         *)
(* game-over screen                                                        *)

\* updates explored from reset_game, and from a round in progress
MaxTicks == 4
SceneTicks == 2

Key(l, r, j, dn) == [left |-> l, right |-> r, jump |-> j, down |-> dn]
Idle == NoKeys
GoLeft == Key(TRUE, FALSE, FALSE, FALSE)
GoRight == Key(FALSE, TRUE, FALSE, FALSE)
Jump == Key(FALSE, FALSE, TRUE, FALSE)

\* the key states of a round: nobody presses a key; player 1 runs right
\* and the others run left; everybody presses jump
RoundKeys(n) ==
    { [i \in 1..n |-> Idle],
      [i \in 1..n |-> IF i = 1 THEN GoRight ELSE GoLeft],
      [i \in 1..n |-> Jump] }

\* frame times (ms): a frame at 10 FPS and a stalled frame of 0.4 s;
\* Game.run passes clock.tick(FPS) / 1000 with no upper cap
RoundDts == {100, 400}

RoundLevels == {"Classic", "Sky Islands"}

\* spawn columns tried for each player (inside SpawnRange)
RoundSpawnColumns(i) ==
    CASE i = 1 -> {200}
      [] i = 2 -> {250}
      [] i = 3 -> {450}
      [] i = 4 -> {650}

RoundSpawns(n) ==
    { xs \in [1..n -> {200, 250, 450, 650}] :
        \A i \in 1..n : xs[i] \in RoundSpawnColumns(i) }

\* a power-up the random draws of spawn_powerups can give
RoundSpawnDraws == { << >>, <<200, 420, "shield">> }

InitRound ==
    /\ \E level \in RoundLevels, n \in {2, 3} :
         \E xs \in RoundSpawns(n) : AfterReset(level, xs)
    /\ ticks = 0

\* A round in progress in Classic: players on or over the bottom-left
\* regular platform (platform 1, top 490); players 2 and 3 overlap, players
\* 1 and 4 stand apart, one step of running away from them.
SceneColumn(i) ==
    CASE i = 1 -> 200
      [] i = 2 -> 245
      [] i = 3 -> 250
      [] i = 4 -> 330

\* a player that landed on platform 1 in the last collision pass
Standing(px, is_tagger) ==
    [NewPlayer(px, 470, is_tagger) EXCEPT !.on_ground = TRUE, !.current_platform = 1]

\* a player falling back after its two jumps
Airborne(px, is_tagger) ==
    [NewPlayer(px, 440, is_tagger) EXCEPT !.vy = Px(100), !.jumps_left = 0]

\* tg: the tagger; cd: its tag_cooldown; sh: the shielded player or 0;
\* fz: the frozen player or 0 (frozen 0.5 s ago by the freeze power-up of
\* the first player other than fz; the collision passes since have reset
\* its on_ground, and it has not landed again with vy = 0); air: the
\* airborne player or 0
ScenePlayer(i, tg, cd, sh, fz, air) ==
    LET b == IF i = air THEN Airborne(SceneColumn(i), i = tg)
             ELSE Standing(SceneColumn(i), i = tg)
        picker == IF fz = 1 THEN 2 ELSE 1
    IN  [b EXCEPT
           !.tag_cooldown = IF i = tg THEN cd ELSE 0,
           !.has_shield = (i = sh),
           !.active_powerups =
               [k \in PowerupKinds |->
                   IF k = "shield" /\ i = sh THEN 3000
                   ELSE IF k = "freeze" /\ fz # 0 /\ i = picker THEN POWERUP_DURATION - 500
                   ELSE 0],
           !.is_frozen = (i = fz),
           !.on_ground = IF i = fz THEN FALSE ELSE @,
           !.frozen_timer = IF i = fz THEN POWERUP_FREEZE_MS - 500 ELSE 0]

\* a power-up spawned 3 s ago above the platform
ScenePowerUp(k) == [NewPowerUp(200, 420, k) EXCEPT !.lifetime = POWERUP_DESPAWN_TIME - 3000]

\* the shield of a scene player with sl ms left
WithShieldLeft(p, sl) ==
    IF p.has_shield THEN [p EXCEPT !.active_powerups["shield"] = sl] ELSE p

\* the times since apply_powerup of a player that was neither frozen nor
\* dying since it collected its power-ups
SceneAge(p) ==
    [k \in PowerupKinds |->
        IF p.active_powerups[k] > 0
        THEN [age |-> POWERUP_DURATION - p.active_powerups[k],
              run |-> POWERUP_DURATION - p.active_powerups[k]]
        ELSE NoAge]

\* the ms left on the shield of the scenes: collected 2 s or 4.8 s ago
SceneShieldLeft == {3000, 200}

InitScene ==
    /\ \E n \in {3, 4} :
       \E tg \in 1..n, cd \in {0, 600}, sh \in {0, 2, 3}, fz \in {0, 1}, air \in {0, n},
          pu \in {"none", "freeze"}, sl \in SceneShieldLeft :
         /\ sh = 0 => sl = 3000
         /\ Cardinality({v \in {fz, air} : v # 0}) + (IF pu # "none" THEN 1 ELSE 0) <= 1
         \* the last collision pass left no tag undone: a tagger whose
         \* cooldown has run out overlaps shielded players only
         /\ cd = 0 => \A j \in 1..n :
                (j # tg /\ colliderect(get_rect(ScenePlayer(tg, tg, cd, sh, fz, air)),
                                       get_rect(ScenePlayer(j, tg, cd, sh, fz, air))))
                => j = sh
         /\ current_level = "Classic"
         /\ players = [i \in 1..n |-> WithShieldLeft(ScenePlayer(i, tg, cd, sh, fz, air), sl)]
         /\ powerups = IF pu = "none" THEN << >> ELSE <<ScenePowerUp(pu)>>
         /\ since_spawn = IF pu = "none" THEN POWERUP_SPAWN_INTERVAL ELSE 3000
         /\ obstacles = level_obstacles("Classic")
         /\ camera = camera_update(NewCamera,
                                    [i \in 1..n |-> ScenePlayer(i, tg, cd, sh, fz, air)], 100)
         /\ tagged_ms = [i \in 1..n |-> IF i = tg /\ cd > 0 THEN TAG_COOLDOWN - cd ELSE -1]
         /\ pass_tags = [i \in 1..n |-> 0]
         /\ pre_pass = BeforePass([i \in 1..n |-> ScenePlayer(i, tg, cd, sh, fz, air)])
         /\ at_input = [i \in 1..n |-> [jumps_left |-> 2, on_ground |-> FALSE, jump_key_was_pressed |-> FALSE, down |-> FALSE]]
         /\ picked = << >>
         /\ powerup_age = [i \in 1..n |->
                SceneAge(WithShieldLeft(ScenePlayer(i, tg, cd, sh, fz, air), sl))]
    /\ ticks = MaxTicks - SceneTicks

Init ==
    /\ InitRound \/ InitScene
    /\ phase = "input"
    /\ dt = 0
    /\ state = "playing"
    /\ running = TRUE

\* Game.handle_events, K_r on the game-over screen: reset_game and back to
\* playing (the level and the number of players stay)
ResetGame ==
    /\ running /\ state = "game_over" /\ phase = "input" /\ ticks < MaxTicks
    /\ \E xs \in RoundSpawns(Len(players)) :
         /\ players' = reset_players(xs)
         /\ powerups' = << >>
         /\ obstacles' = level_obstacles(current_level)
         /\ camera' = NewCamera
         /\ since_spawn' = 0
         /\ tagged_ms' = [i \in 1..Len(xs) |-> -1]
         /\ pass_tags' = [i \in 1..Len(xs) |-> 0]
         /\ pre_pass' = BeforePass(reset_players(xs))
         /\ at_input' = [i \in 1..Len(xs) |-> [jumps_left |-> 2, on_ground |-> FALSE, jump_key_was_pressed |-> FALSE, down |-> FALSE]]
         /\ picked' = << >>
         /\ powerup_age' = [i \in 1..Len(xs) |-> [k \in PowerupKinds |-> NoAge]]
    /\ state' = "playing"
    /\ UNCHANGED <<current_level, phase, dt, running, ticks>>

Next ==
    \/ HandleInputAndUpdate(RoundKeys(Len(players)), RoundDts, BOOLEAN, MaxTicks)
    \/ UpdateWorld({0}, RoundSpawnDraws)
    \/ CheckCollisions
    \/ CheckPowerupCollisions
    \/ CheckObstacleCollisions
    \/ CheckPlayerBoundaries
    \/ CameraUpdate
    \/ EndOfUpdate(BOOLEAN)
    \/ ResetGame

Spec == Init /\ [][Next]_vars

-----------------------------------------------------------------------------
(* Tagging                                                                 *)

\* the players that are the tagger
Taggers == {i \in 1..Len(players) : players[i].is_tagger}

\* C1: in every reachable state of a round, whatever the inputs, overlaps,
\* shields, freezes and pick-ups and for 2 to 4 players, exactly one player
\* has is_tagger set.
C1_ExactlyOneTagger == Cardinality(Taggers) = 1

\* a collision pass of a four-player round has just swapped the roles
C1_Witness_SwapAmongFour ==
    /\ phase = "pickup" /\ Len(players) = 4
    /\ \E i \in 1..4 : pass_tags[i] = 1 /\ ~players[i].is_tagger

\* the collision pass: the step of Game.check_collisions
CollisionPass == phase = "collide" /\ phase' = "pickup"

\* the rects of players i and j of ps overlap
overlap(ps, i, j) == i # j /\ colliderect(get_rect(ps[i]), get_rect(ps[j]))

\* is_tagger, score and tag_cooldown of player i are the same in ps and qs
SameTagState(ps, qs, i) ==
    /\ qs[i].is_tagger = ps[i].is_tagger
    /\ qs[i].score = ps[i].score
    /\ qs[i].tag_cooldown = ps[i].tag_cooldown

\* i has tagged j between ps and qs
Tagged(ps, qs, i, j) ==
    /\ ~qs[i].is_tagger /\ qs[j].is_tagger
    /\ qs[i].score = ps[i].score + 1
    /\ \A k \in 1..Len(ps) : k # i => qs[k].score = ps[k].score
    /\ qs[j].tag_cooldown = TAG_COOLDOWN

\* the players without a shield whose rect overlaps that of player i in the
\* tagging loops (the platform part of the pass has moved the players to
\* their places in qs; it leaves is_tagger, tag_cooldown and has_shield alone)
Victims(ps, qs, i) == {j \in 1..Len(ps) : overlap(qs, i, j) /\ ~ps[j].has_shield}

MinOf(S) == CHOOSE m \in S : \A k \in S : m <= k

\* C2 as stated: whenever a tagger whose cooldown has run out overlaps a
\* player without a shield in the collision pass, that player is tagged.
C2_AsStated_EveryOverlapTagged ==
    [][CollisionPass =>
         \A i, j \in 1..Len(players) :
            (players[i].is_tagger /\ players[i].tag_cooldown <= 0
               /\ j \in Victims(players, players', i))
            => Tagged(players, players', i, j)]_vars

\* C2: when the tagger's cooldown has run out and its rect overlaps players
\* without a shield in the collision pass, the first of them in the order of
\* the pair loops (the one of least index) is tagged: the roles of the two
\* are swapped, the former tagger's score is one higher, no other score
\* changes and the new tagger's tag_cooldown is 1000.
C2_FirstOverlapTagged ==
    [][CollisionPass =>
         \A i \in 1..Len(players) :
            (players[i].is_tagger /\ players[i].tag_cooldown <= 0
               /\ Victims(players, players', i) # {})
            => Tagged(players, players', i, MinOf(Victims(players, players', i)))]_vars

\* a pass has tagged player j while a later player k, without a shield,
\* overlapped the former tagger i too
C2_Witness_TwoOverlapOneTagged ==
    /\ phase = "pickup"
    /\ \E i, j, k \in 1..Len(players) :
         /\ pass_tags[i] = 1 /\ j < k /\ k # i
         /\ players[j].is_tagger /\ players[j].tag_cooldown = TAG_COOLDOWN
         /\ overlap(players, i, j) /\ overlap(players, i, k)
         /\ ~players[k].has_shield /\ ~players[k].is_tagger

RECURSIVE SumScore(_, _)
SumScore(ps, n) == IF n = 0 THEN 0 ELSE ps[n].score + SumScore(ps, n - 1)

\* C3: a collision pass makes at most one role swap and raises no score by
\* more than one (the scores rise by at most one in all), and a player that
\* tags in a pass was never tagged in this round or has had its whole 1000 ms
\* cooldown counted down since it was tagged.
C3_OneSwapPerPass ==
    [][CollisionPass =>
         /\ SumScore(players', Len(players)) <= SumScore(players, Len(players)) + 1
         /\ \A i \in 1..Len(players) : players'[i].score <= players[i].score + 1
         /\ Cardinality({i \in 1..Len(players) :
                           players'[i].is_tagger # players[i].is_tagger}) \in {0, 2}
         /\ \A i \in 1..Len(players) :
               players'[i].score > players[i].score
               => tagged_ms[i] = -1 \/ tagged_ms[i] >= TAG_COOLDOWN]_vars

\* a player that was tagged has tagged back after its cooldown
C3_Witness_TagBackAfterCooldown ==
    /\ phase = "pickup"
    /\ \E i \in 1..Len(players) : pass_tags[i] = 1 /\ tagged_ms[i] >= TAG_COOLDOWN

\* C4 as stated: when a tagger whose cooldown has run out overlaps a
\* shielded player in the collision pass, is_tagger, score and tag_cooldown of
\* both are the same after the pass as before.
C4_AsStated_BothUnchanged ==
    [][CollisionPass =>
         \A i, j \in 1..Len(players) :
            (players[i].is_tagger /\ players[i].tag_cooldown <= 0
               /\ overlap(players', i, j) /\ players[j].has_shield)
            => /\ SameTagState(players, players', i)
               /\ SameTagState(players, players', j)]_vars

\* C4: when a tagger whose cooldown has run out overlaps a shielded player
\* in the collision pass, is_tagger, score and tag_cooldown of the shielded
\* player are the same after the pass as before, and so are the tagger's
\* when it overlaps no player without a shield in that pass.
C4_ShieldBlocksTag ==
    [][CollisionPass =>
         \A i, j \in 1..Len(players) :
            (players[i].is_tagger /\ players[i].tag_cooldown <= 0
               /\ overlap(players', i, j) /\ players[j].has_shield)
            => /\ SameTagState(players, players', j)
               /\ Victims(players, players', i) = {}
                    => SameTagState(players, players', i)]_vars

\* after a pass the tagger, its cooldown run out, still overlaps a shielded
\* player and no tag was made
C4_Witness_TaggerOnShield ==
    /\ phase = "pickup"
    /\ \A i \in 1..Len(players) : pass_tags[i] = 0
    /\ \E i, j \in 1..Len(players) :
         /\ players[i].is_tagger /\ players[i].tag_cooldown <= 0
         /\ overlap(players, i, j) /\ players[j].has_shield

-----------------------------------------------------------------------------
(* Jumps                                                                   *)

\* C5: jumps_left of every player is 0, 1 or 2 in every reachable state.
C5_JumpsLeftInRange ==
    \A i \in 1..Len(players) : players[i].jumps_left \in {0, 1, 2}

\* a player in the air with no jump left has just pressed jump: no jump
C5_Witness_JumpWithNoneLeft ==
    /\ phase = "world"
    /\ \E i \in 1..Len(players) :
         /\ at_input[i].jumps_left = 0 /\ ~at_input[i].on_ground
         /\ ~at_input[i].jump_key_was_pressed /\ players[i].jump_key_was_pressed
         /\ players[i].jumps_left = 0

\* the input-handling step of a tick (handle_input and update of every player)
InputStep == phase = "input" /\ phase' = "world"

\* a new round: reset_game builds new players
NewRound == state = "game_over" /\ state' = "playing"

\* C6: in a tick where on_ground is False at the start of the input-handling
\* step, jumps_left is unchanged or one less after it; where on_ground is
\* True it is set to 2 (and is 1 if the player jumps at once).  on_ground is
\* True at the start of the step only by the last collision pass: between
\* that pass and the step nothing writes on_ground, and nothing but the
\* input-handling step writes jumps_left within a round.
C6_JumpsResetOnlyOnGround ==
    [][/\ InputStep =>
            \A i \in 1..Len(players) :
               /\ ~players[i].on_ground =>
                     players'[i].jumps_left \in
                        {players[i].jumps_left, players[i].jumps_left - 1}
               /\ players[i].on_ground => players'[i].jumps_left \in {1, 2}
       /\ (~InputStep /\ ~NewRound) =>
            \A i \in 1..Len(players) :
               /\ players'[i].jumps_left = players[i].jumps_left
               /\ ~CollisionPass => players'[i].on_ground = players[i].on_ground]_vars

\* a player that had used a jump and landed in the last collision pass has
\* its jumps back
C6_Witness_ResetAfterLanding ==
    /\ phase = "world"
    /\ \E i \in 1..Len(players) :
         /\ at_input[i].on_ground /\ at_input[i].jumps_left < 2
         /\ players[i].jumps_left = 2

-----------------------------------------------------------------------------
(* Specification SpecSky: a two-player round of Sky Islands from           *)
(* reset_game, player 1 idle, player 2 idle or jumping to the right,       *)
(* frames of 0.16 s                                                        *)

\* updates explored in SpecSky
SkyTicks == 24

JumpRight == Key(FALSE, TRUE, TRUE, FALSE)

SkyKeys ==
    { [i \in 1..2 |-> Idle],
      [i \in 1..2 |-> IF i = 2 THEN JumpRight ELSE Idle] }

SkyDts == {160}

InitSky ==
    /\ AfterReset("Sky Islands", <<150, 400>>)
    /\ ticks = 0
    /\ phase = "input"
    /\ dt = 0
    /\ state = "playing"
    /\ running = TRUE

NextSky ==
    \/ HandleInputAndUpdate(SkyKeys, SkyDts, {FALSE}, SkyTicks)
    \/ UpdateWorld({0}, {<< >>})
    \/ CheckCollisions
    \/ CheckPowerupCollisions
    \/ CheckObstacleCollisions
    \/ CheckPlayerBoundaries
    \/ CameraUpdate
    \/ EndOfUpdate({FALSE})

SpecSky == InitSky /\ [][NextSky]_vars

\* the platform effect flags of player p that are set
EffectFlags(p) ==
    {f \in {"sticky", "jump", "speed"} :
        \/ f = "sticky" /\ p.on_sticky_platform
        \/ f = "jump" /\ p.on_jump_platform
        \/ f = "speed" /\ p.on_speed_platform}

\* C7 as stated: after the collision pass of every tick every player,
\* frozen and dying ones included, has at most one of on_sticky_platform,
\* on_jump_platform and on_speed_platform set.
C7_AsStated_AtMostOneEffect ==
    phase = "pickup" =>
        \A i \in 1..Len(players) : Cardinality(EffectFlags(players[i])) <= 1

-----------------------------------------------------------------------------
(* Camera                                                                  *)

\* C8 as stated: zoom_level is within [min_zoom, max_zoom] after every
\* Camera.update, for every dt the game loop passes.
C8_AsStated_ZoomWithinLimits ==
    camera.zoom_level >= min_zoom /\ camera.zoom_level <= max_zoom

\* world -> screen -> world and screen -> world -> screen on one coordinate
RoundTripWorld(origin, zoom, x) == reverse_apply(origin, zoom, apply_pos(origin, zoom, x))
RoundTripScreen(origin, zoom, sx) == apply_pos(origin, zoom, reverse_apply(origin, zoom, sx))

\* world coordinates inside the view: those of the players in view and a
\* grid of 50 px; screen coordinates: a grid of 50 px
WorldXs ==
    {players[i].x : i \in {j \in 1..Len(players) :
        /\ players[j].x >= Px(camera.state.left)
        /\ players[j].x <= Px(camera.state.left + camera.state.w)}}
    \cup {Px(camera.state.left + 50 * k) : k \in 0..(camera.state.w \div 50)}
WorldYs ==
    {players[i].y : i \in {j \in 1..Len(players) :
        /\ players[j].y >= Px(camera.state.top)
        /\ players[j].y <= Px(camera.state.top + camera.state.h)}}
    \cup {Px(camera.state.top + 50 * k) : k \in 0..(camera.state.h \div 50)}
ScreenXs == {Px(50 * k) : k \in 0..(SCREEN_WIDTH \div 50)}
ScreenYs == {Px(50 * k) : k \in 0..(SCREEN_HEIGHT \div 50)}

\* C9 as stated: reverse_apply(apply_pos(p)) = p for every world point p in
\* the view and apply_pos(reverse_apply(s)) = s for every screen point s,
\* exactly, in every camera state Camera.update reaches.
C9_AsStated_ExactRoundTrip ==
    phase \in {"input", "end"} =>
    /\ \A x \in WorldXs : RoundTripWorld(camera.state.left, camera.zoom_level, x) = x
    /\ \A y \in WorldYs : RoundTripWorld(camera.state.top, camera.zoom_level, y) = y
    /\ \A sx \in ScreenXs : RoundTripScreen(camera.state.left, camera.zoom_level, sx) = sx
    /\ \A sy \in ScreenYs : RoundTripScreen(camera.state.top, camera.zoom_level, sy) = sy

\* C9: in every camera state Camera.update reaches the two transforms are
\* inverse up to the rounding of the arithmetic: a world coordinate comes
\* back within one rounding step of the screen scaled back to the world
\* (1 / zoom_level steps) plus one, a screen coordinate within zoom_level
\* steps plus one.
C9_RoundTripWithinRounding ==
    LET zoom == camera.zoom_level
        world_tol == ZScale \div zoom + 1
        screen_tol == zoom \div ZScale + 1
    IN  phase \in {"input", "end"} =>
        /\ zoom > 0
        /\ \A x \in WorldXs :
              Abs(RoundTripWorld(camera.state.left, zoom, x) - x) <= world_tol
        /\ \A y \in WorldYs :
              Abs(RoundTripWorld(camera.state.top, zoom, y) - y) <= world_tol
        /\ \A sx \in ScreenXs :
              Abs(RoundTripScreen(camera.state.left, zoom, sx) - sx) <= screen_tol
        /\ \A sy \in ScreenYs :
              Abs(RoundTripScreen(camera.state.top, zoom, sy) - sy) <= screen_tol

\* after an update the camera is zoomed and scrolled down, and the y of a
\* player in view does not come back exactly
C9_Witness_InexactRoundTrip ==
    /\ phase = "end"
    /\ camera.zoom_level # ZScale /\ camera.state.top > 0
    /\ \E i \in 1..Len(players) :
         /\ players[i].y \in WorldYs
         /\ RoundTripWorld(camera.state.top, camera.zoom_level, players[i].y) # players[i].y

-----------------------------------------------------------------------------
(* Specification SpecMaze: a two-player round of Maze Runner from          *)
(* reset_game; both players idle or both jumping                           *)

\* updates explored in SpecMaze
MazeTicks == 5

MazeKeys == { [i \in 1..2 |-> Idle], [i \in 1..2 |-> Jump] }

MazeDts == {50, 100}

\* the spawn columns tried: player 1 at the left end of its range, or
\* below the damaging obstacle at (200, 265)
MazeSpawns == { <<100, 300>>, <<200, 300>> }

InitMaze ==
    /\ \E xs \in MazeSpawns : AfterReset("Maze Runner", xs)
    /\ ticks = 0
    /\ phase = "input"
    /\ dt = 0
    /\ state = "playing"
    /\ running = TRUE

NextMaze ==
    \/ HandleInputAndUpdate(MazeKeys, MazeDts, {FALSE}, MazeTicks)
    \/ UpdateWorld({0}, {<< >>})
    \/ CheckCollisions
    \/ CheckPowerupCollisions
    \/ CheckObstacleCollisions
    \/ CheckPlayerBoundaries
    \/ CameraUpdate
    \/ EndOfUpdate({FALSE})

SpecMaze == InitMaze /\ [][NextMaze]_vars

\* the listed platforms player i met the landing conditions of at the start
\* of the last collision pass: moving down (vy > 0), rect overlapping,
\* y + radius below the platform top, centre above top + 10, and not
\* dropping through a passthrough platform
LandingPlatforms(i) ==
    {k \in 1..Len(level_platforms(current_level)) :
        LET pl == level_platforms(current_level)[k]
            pr == platform_rects[current_level][k]
            b == pre_pass[i]
        IN  /\ b.vy > 0
            /\ colliderect(Rect(IntPx(b.x) - PLAYER_RADIUS, IntPx(b.y) - PLAYER_RADIUS,
                                 2 * PLAYER_RADIUS, 2 * PLAYER_RADIUS), pr)
            /\ b.y + Px(PLAYER_RADIUS) > Px(pr.top)
            /\ b.y < Px(pr.top + 10)
            /\ ~(pl.platform_type = "passthrough" /\ players[i].passing_through)}

\* player i stands on platform k after the pass, with the platform's effect
LandedOn(i, k) ==
    LET pl == level_platforms(current_level)[k]
        p == players[i]
    IN  /\ p.y = Px(platform_rects[current_level][k].top - PLAYER_RADIUS)
        /\ p.vy = 0 /\ p.on_ground /\ p.current_platform = k
        /\ pl.platform_type = "sticky" => p.on_sticky_platform
        /\ pl.platform_type = "jump" => p.on_jump_platform
        /\ pl.platform_type = "speed" => p.on_speed_platform

\* C10 as stated: a player that meets the landing conditions of a platform
\* at the start of the collision pass stands on that platform after it.
C10_AsStated_LandsOnEveryPlatform ==
    phase = "pickup" =>
        \A i \in 1..Len(players) : \A k \in LandingPlatforms(i) : LandedOn(i, k)

\* C10: a player that meets the landing conditions of one or more platforms
\* at the start of the collision pass stands after it on the first of them
\* in the order of the platform list: y = top - radius, vy = 0, on_ground,
\* current_platform that platform, its effect flag set.
C10_LandsOnFirstPlatform ==
    phase = "pickup" =>
        \A i \in 1..Len(players) :
            LandingPlatforms(i) # {} => LandedOn(i, MinOf(LandingPlatforms(i)))

\* a player met the landing conditions of two platforms of different
\* heights and stands on the first
C10_Witness_TwoPlatformsFirstWins ==
    /\ phase = "pickup"
    /\ \E i \in 1..Len(players) : \E k, m \in LandingPlatforms(i) :
         /\ k < m
         /\ platform_rects[current_level][k].top # platform_rects[current_level][m].top
         /\ LandedOn(i, k)

-----------------------------------------------------------------------------
(* Power-up timers                                                         *)

Applied(i, k) == powerup_age[i][k].age >= 0

-----------------------------------------------------------------------------
(* Bouncing obstacles                                                      *)

\* Specification SpecBounce: Sky Islands from reset_game, player 2 spawned
\* at x = 300.  For the first updates (0.1 s frames) player 2 jumps to the
\* right or does nothing; then nobody presses a key and the frames are
\* 16 ms (60 FPS) or 0.1 s long.
BounceApproachTicks == 8
BounceTicks == 11

BounceKeys ==
    { [i \in 1..2 |-> Idle],
      [i \in 1..2 |-> IF i = 2 THEN JumpRight ELSE Idle] }

InitBounce ==
    /\ AfterReset("Sky Islands", <<150, 300>>)
    /\ ticks = 0
    /\ phase = "input"
    /\ dt = 0
    /\ state = "playing"
    /\ running = TRUE

NextBounce ==
    \/ HandleInputAndUpdate(BounceKeys, {100}, {FALSE}, BounceApproachTicks)
    \/ /\ ticks >= BounceApproachTicks
       /\ HandleInputAndUpdate({[i \in 1..2 |-> Idle]}, {16, 100}, {FALSE}, BounceTicks)
    \/ UpdateWorld({0}, {<< >>})
    \/ CheckCollisions
    \/ CheckPowerupCollisions
    \/ CheckObstacleCollisions
    \/ CheckPlayerBoundaries
    \/ CameraUpdate
    \/ EndOfUpdate({FALSE})

SpecBounce == InitBounce /\ [][NextBounce]_vars

ObstaclePass == phase = "obstacle" /\ phase' = "bounds"

\* the rects share a column of pixels
overlap_x(a, b) == a.left < Right(b) /\ b.left < Right(a)

\* player p falls with the bottom of its rect from lo to hi px below the
\* top edge of the bouncing obstacle o
FallsOnto(p, o, lo, hi) ==
    /\ o.obstacle_type = "bouncing"
    /\ p.vy > 0
    /\ overlap_x(get_rect(p), obstacle_rect(o))
    /\ Bottom(get_rect(p)) - obstacle_rect(o).top \in lo..hi

Bounced(p, o) ==
    /\ p.vy = -Px(o.bounce_strength)
    /\ p.y = Px(obstacle_rect(o).top - PLAYER_RADIUS)

\* C12 as stated: a falling player whose rect bottom is at the top edge of
\* a bouncing obstacle, or up to 10 px below it, leaves the obstacle pass
\* with vy == -bounce_strength, on top of the obstacle
C12_AsStated_BouncesFromTopEdge ==
    [][ObstaclePass =>
        \A i \in 1..Len(players) : \A k \in 1..Len(obstacles) :
            FallsOnto(players[i], obstacles[k], 0, 10) =>
                Bounced(players'[i], obstacles[k])]_vars

\* C12: a falling player whose rect bottom is 1 to 10 px below the top
\* edge of a bouncing obstacle (the rects overlap) leaves the obstacle
\* pass with vy == -bounce_strength and y == obstacle top - radius
C12_BouncesWhenOverlapping ==
    [][ObstaclePass =>
        \A i \in 1..Len(players) : \A k \in 1..Len(obstacles) :
            FallsOnto(players[i], obstacles[k], 1, 10) =>
                Bounced(players'[i], obstacles[k])]_vars

\* a player has just bounced off a bouncing obstacle
C12_Witness_Bounced ==
    /\ phase = "bounds"
    /\ \E i \in 1..Len(players) : \E k \in 1..Len(obstacles) :
          /\ obstacles[k].obstacle_type = "bouncing"
          /\ Bounced(players[i], obstacles[k])
          /\ overlap_x(get_rect(players[i]), obstacle_rect(obstacles[k]))

-----------------------------------------------------------------------------
(* Frozen players                                                          *)

\* C13 as stated: handle_input and update of a player that is frozen when
\* the tick starts leave its x, y, vx and vy unchanged whatever keys are
\* held, take dt off frozen_timer and clear is_frozen once the timer is
\* at or below 0
C13_AsStated_FrozenKeepsVelocity ==
    [][InputStep =>
        \A i \in 1..Len(players) :
            players[i].is_frozen =>
                /\ players'[i].x = players[i].x
                /\ players'[i].y = players[i].y
                /\ players'[i].vx = players[i].vx
                /\ players'[i].vy = players[i].vy
                /\ players'[i].frozen_timer = players[i].frozen_timer - dt_seconds(dt')
                /\ players'[i].is_frozen = (players'[i].frozen_timer > 0)]_vars

-----------------------------------------------------------------------------
(* Damaging obstacles                                                      *)

\* obstacle k is a damaging obstacle with its cooldown run out, and the
\* rect of player i overlaps it
Spiked(i, k) ==
    /\ obstacles[k].obstacle_type = "damaging"
    /\ obstacles[k].current_cooldown <= 0
    /\ colliderect(get_rect(players[i]), obstacle_rect(obstacles[k]))

\* C14 as stated: the obstacle pass with a player on a damaging obstacle
\* whose cooldown has run out damages the player (unless shielded or
\* flashing), restarts current_cooldown at damage_cooldown (1 s), is
\* processed to completion, and the tick goes on to the boundary pass
C14_AsStated_DamageThenContinue ==
    [][(phase = "obstacle" /\ running) =>
        \A i \in 1..Len(players) : \A k \in 1..Len(obstacles) :
            Spiked(i, k) =>
                /\ running' /\ phase' = "bounds"
                /\ obstacles'[k].current_cooldown = 1000
                /\ (players[i].damage_flash <= 0 /\ ~players[i].has_shield)
                      => players'[i].damage_flash = 400]_vars

-----------------------------------------------------------------------------
(* Power-up pickup                                                         *)

\* C15 as stated: after a pickup pass in which a player collected a freeze
\* power-up, every other player is frozen with frozen_timer == 1.5 s and
\* the collector is not frozen
C15_AsStated_FreezesEveryOther ==
    phase = "obstacle" =>
        \A n \in 1..Len(picked) :
            picked[n][2] = "freeze" =>
                /\ ~players[picked[n][1]].is_frozen
                /\ \A j \in 1..Len(players) :
                      j # picked[n][1] =>
                          /\ players[j].is_frozen
                          /\ players[j].frozen_timer = POWERUP_FREEZE_MS

\* Specification SpecPickup: Game.check_powerup_collisions applied to three
\* players on platform 1 of Classic and lists of one to three power-ups.
\* POWERUP_MAX_COUNT is 1, so spawn_powerups never builds the longer
\* lists: they are inputs of the function, which the pass iterates in
\* reverse index order whatever the length.
MaxPowerups == 3

PickupSpots == { <<200, 470>>, <<247, 470>>, <<600, 300>> }

PickupKinds == {"speed", "freeze"}

PickupLists ==
    UNION { [1..n -> { NewPowerUp(xy[1], xy[2], k) : xy \in PickupSpots, k \in PickupKinds }] :
            n \in 1..MaxPowerups }

PickupPlayers == [i \in 1..3 |-> ScenePlayer(i, 1, 600, 0, 0, 0)]

InitPickup ==
    /\ current_level = "Classic"
    /\ players = PickupPlayers
    /\ powerups \in PickupLists
    /\ obstacles = level_obstacles("Classic")
    /\ camera = camera_update(NewCamera, PickupPlayers, 100)
    /\ phase = "pickup"
    /\ dt = 100
    /\ state = "playing"
    /\ running = TRUE
    /\ ticks = 1
    /\ since_spawn = 0
    /\ tagged_ms = [i \in 1..3 |-> IF i = 1 THEN TAG_COOLDOWN - 600 ELSE -1]
    /\ pass_tags = [i \in 1..3 |-> 0]
    /\ pre_pass = BeforePass(PickupPlayers)
    /\ at_input = [i \in 1..3 |-> [jumps_left |-> 2, on_ground |-> FALSE, jump_key_was_pressed |-> FALSE, down |-> FALSE]]
    /\ picked = << >>
    /\ powerup_age = [i \in 1..3 |-> [k \in PowerupKinds |-> NoAge]]

NextPickup == CheckPowerupCollisions

SpecPickup == InitPickup /\ [][NextPickup]_vars

PickupPass == phase = "pickup" /\ phase' = "obstacle"

\* the players whose rect overlaps the rect of power-up u
Takers(ps, u) == {i \in 1..Len(ps) : colliderect(get_rect(ps[i]), powerup_rect(u))}

\* the number of entries of the sequence q that satisfy e = q[n]
CountOf(q, e) == Cardinality({n \in 1..Len(q) : q[n] = e})

\* C16: in the pickup pass every power-up whose rect overlaps a player is
\* applied exactly once, to the overlapping player of least index, and is
\* removed from Game.powerups; the power-ups that overlap no player stay,
\* in their order, and none is applied: no power-up is skipped or
\* processed twice
C16_AppliedOnceAndRemoved ==
    [][PickupPass =>
        LET free(u) == Takers(players, u) = {}
        IN  /\ powerups' = SelectSeq(powerups, free)
            /\ Len(picked') = Cardinality({n \in 1..Len(powerups) : ~free(powerups[n])})
            /\ \A n \in 1..Len(powerups) :
                  ~free(powerups[n]) =>
                      /\ CountOf(picked', <<MinOf(Takers(players, powerups[n])),
                                            powerups[n].type, powerups[n]>>)
                            = CountOf(powerups, powerups[n])
                      /\ players'[MinOf(Takers(players, powerups[n]))]
                             .active_powerups[powerups[n].type] = POWERUP_DURATION]_vars

\* player 2 collected two of three power-ups, which player 3 overlaps
\* too, and the third power-up, away from the players, is left
C16_Witness_TwoTakenOneLeft ==
    /\ phase = "obstacle"
    /\ Len(picked) = 2 /\ Len(powerups) = 1
    /\ picked[1][1] = 2 /\ picked[2][1] = 2
    /\ 3 \in Takers(players, picked[1][3])
    /\ powerups[1].x = 600

-----------------------------------------------------------------------------
(* Boundaries                                                              *)

BoundsPass == phase = "bounds" /\ phase' = "camera"

\* C17 as stated: a player that Player.enforce_boundaries leaves unchanged
\* goes through Game.check_player_boundaries unchanged
C17_AsStated_SameBounds ==
    [][BoundsPass =>
        \A i \in 1..Len(players) :
            enforce_boundaries(players[i]) = players[i] => players'[i] = players[i]]_vars

-----------------------------------------------------------------------------
(* Specification SpecRespawn: a two-player round of Classic or of Sky       *)
(* Islands from reset_game in frames of 0.4 s; player 1 runs right and      *)
(* player 2 runs left, off the platforms and onto the floor.  Once the      *)
(* spawn interval has passed a power-up may appear on the way of            *)
(* a player that falls from the respawn platform of Sky Islands.            *)

RespawnTicks == 36

RespawnLevels == {"Classic", "Sky Islands"}

RespawnSpawnDraws ==
    { << >>, <<100, 338, "shield">>, <<100, 338, "freeze">>, <<100, 338, "invisible">> }

RespawnKeys == { [i \in 1..2 |-> IF i = 1 THEN GoRight ELSE GoLeft] }

InitRespawn ==
    /\ \E level \in RespawnLevels : AfterReset(level, <<200, 250>>)
    /\ ticks = 0
    /\ phase = "input"
    /\ dt = 0
    /\ state = "playing"
    /\ running = TRUE

NextRespawn ==
    \/ HandleInputAndUpdate(RespawnKeys, {400}, {FALSE, TRUE}, RespawnTicks)
    \/ UpdateWorld({0}, RespawnSpawnDraws)
    \/ CheckCollisions
    \/ CheckPowerupCollisions
    \/ CheckObstacleCollisions
    \/ CheckPlayerBoundaries
    \/ CameraUpdate
    \/ EndOfUpdate({FALSE})

SpecRespawn == InitRespawn /\ [][NextRespawn]_vars

\* player p is at the respawn position: on top of a platform whose top is
\* in the top third, or at the fallback height
AtRespawnPosition(p, level) ==
    IF top_platforms(level) # {}
    THEN \E k \in top_platforms(level) :
             /\ p.x = Px(CenterX(platform_rects[level][k]))
             /\ p.y = Px(platform_rects[level][k].top - PLAYER_RADIUS)
    ELSE p.y = Px(100)

\* C18 as stated: at the end of the Player.update call in which the
\* death_timer of a dying player reaches 0 the player is no longer dying,
\* is on top of a top-third platform (or at the fallback position), has
\* vx == 0 and vy == 0, and damage_flash == 1.0
C18_AsStated_RespawnedAtRest ==
    [][InputStep =>
        \A i \in 1..Len(players) :
            (/\ players[i].is_dying /\ ~players[i].is_frozen
             /\ players[i].death_timer - dt_seconds(dt') <= 0) =>
                /\ ~players'[i].is_dying
                /\ AtRespawnPosition(players'[i], current_level)
                /\ players'[i].vx = 0 /\ players'[i].vy = 0
                /\ players'[i].damage_flash = 1000]_vars

-----------------------------------------------------------------------------
(* The floor of the screen                                                  *)

\* player p is at or below the floor line when the collision pass starts
OnFloor(p) == p.y >= Px(SCREEN_HEIGHT - PLAYER_RADIUS)

\* the floor rule shared by all levels and the rule of a level with solid
\* floor, for the player that was p before the pass and is q after it
FloorClamped(p, q) == OnFloor(p) => q.y = Px(SCREEN_HEIGHT - PLAYER_RADIUS)
SolidFloor(p, q) == OnFloor(p) => q.on_ground /\ q.vy = 0

\* the dying state and the bounce of the lethal floor
LethalFloorDying(p, q) ==
    OnFloor(p) =>
        /\ q.is_dying
        /\ q.death_timer = (IF p.is_dying THEN p.death_timer ELSE 3000)
        /\ q.vy = -MulDiv(Px(DEFAULT_JUMP_FORCE), 3, 10)

\* C19 as stated: in the collision pass a player with y >= SCREEN_HEIGHT -
\* radius is clamped to that y; without lethal floor it ends with on_ground
\* True and vy == 0; in Sky Islands it takes damage (it is in the damage
\* flash after the pass), is dying with death_timer 3.0, or with its old
\* timer if it was dying already, and has vy == -0.3 * DEFAULT_JUMP_FORCE
C19_AsStated_FloorDamages ==
    [][CollisionPass =>
        \A i \in 1..Len(players) :
            /\ FloorClamped(players[i], players'[i])
            /\ current_level # "Sky Islands" => SolidFloor(players[i], players'[i])
            /\ current_level = "Sky Islands" =>
                   /\ LethalFloorDying(players[i], players'[i])
                   /\ OnFloor(players[i]) => players'[i].damage_flash > 0]_vars

\* C19: as above, but on the lethal floor the damage is the one of
\* take_damage: a player without shield and without damage flash gets
\* damage_flash 0.4 and is_damaged, any other player keeps both
C19_FloorRule ==
    [][CollisionPass =>
        \A i \in 1..Len(players) :
            /\ FloorClamped(players[i], players'[i])
            /\ current_level # "Sky Islands" => SolidFloor(players[i], players'[i])
            /\ current_level = "Sky Islands" =>
                   /\ LethalFloorDying(players[i], players'[i])
                   /\ OnFloor(players[i]) =>
                          IF players[i].damage_flash > 0 \/ players[i].has_shield
                          THEN /\ players'[i].damage_flash = players[i].damage_flash
                               /\ players'[i].is_damaged = players[i].is_damaged
                          ELSE /\ players'[i].damage_flash = 400
                               /\ players'[i].is_damaged]_vars

\* a shielded player has reached the lethal floor: it is dying and bounces,
\* and its damage flash was not started
C19_Witness_ShieldedOnLethalFloor ==
    /\ phase = "pickup" /\ current_level = "Sky Islands"
    /\ \E i \in 1..Len(players) :
           /\ pre_pass[i].y >= Px(SCREEN_HEIGHT - PLAYER_RADIUS)
           /\ players[i].has_shield
           /\ players[i].is_dying /\ players[i].death_timer = 3000
           /\ players[i].y = Px(SCREEN_HEIGHT - PLAYER_RADIUS)
           /\ players[i].vy = -MulDiv(Px(DEFAULT_JUMP_FORCE), 3, 10)
           /\ players[i].damage_flash <= 0

-----------------------------------------------------------------------------
(* Passthrough platforms                                                    *)
(* Specification SpecDrop: a two-player round of Sky Islands from           *)
(* reset_game; player 1 is spawned over the passthrough platform at         *)
(* (150, 320) and player 2 over the one at (400, 320); each tick the down   *)
(* keys are held by nobody, by player 1 or by both                          *)

DropTicks == 5

Down == Key(FALSE, FALSE, FALSE, TRUE)

DropKeys ==
    { [i \in 1..2 |-> Idle],
      [i \in 1..2 |-> IF i = 1 THEN Down ELSE Idle],
      [i \in 1..2 |-> Down] }

DropDts == {16, 100}

InitDrop ==
    /\ AfterReset("Sky Islands", <<150, 400>>)
    /\ ticks = 0
    /\ phase = "input"
    /\ dt = 0
    /\ state = "playing"
    /\ running = TRUE

NextDrop ==
    \/ HandleInputAndUpdate(DropKeys, DropDts, {FALSE}, DropTicks)
    \/ UpdateWorld({0}, {<< >>})
    \/ CheckCollisions
    \/ CheckPowerupCollisions
    \/ CheckObstacleCollisions
    \/ CheckPlayerBoundaries
    \/ CameraUpdate
    \/ EndOfUpdate({FALSE})

SpecDrop == InitDrop /\ [][NextDrop]_vars

\* the platforms of type t whose rect overlaps the rect of player p
Overlapped(p, level, t) ==
    {k \in 1..Len(level_platforms(level)) :
        /\ (level_platforms(level)[k].platform_type = "passthrough") = t
        /\ colliderect(get_rect(p), platform_rects[level][k])}

\* position, velocity, on_ground and effect flags of a player
Motion(p) ==
    <<p.x, p.y, p.vx, p.vy, p.on_ground,
      p.on_sticky_platform, p.on_jump_platform, p.on_speed_platform>>

\* player p, about to enter the collision pass, is over passthrough
\* platform k in the way that lands a player on a regular platform, and
\* over no other platform
OverPassthrough(p, level, k) ==
    /\ Overlapped(p, level, TRUE) = {k}
    /\ Overlapped(p, level, FALSE) = {}
    /\ ~OnFloor(p)
    /\ is_landing(p, platform_rects[level][k])

\* player q stands on platform k as on a regular platform, with the effect
\* flags player p had
LandedAsOnRegular(p, q, level, k) ==
    /\ q.y = Px(platform_rects[level][k].top - PLAYER_RADIUS)
    /\ q.vy = 0 /\ q.on_ground /\ q.current_platform = k
    /\ q.x = p.x /\ q.vx = p.vx
    /\ q.on_sticky_platform = p.on_sticky_platform
    /\ q.on_jump_platform = p.on_jump_platform
    /\ q.on_speed_platform = p.on_speed_platform

\* C20: passing_through is the down key read by the handle_input of the
\* tick; in the collision pass of a tick with the down key held a player
\* that overlaps passthrough platforms only (and is not on the floor) keeps
\* position, velocity and effect flags and is left off the ground; with the
\* down key not held, a player over a passthrough platform is landed on it
\* exactly as on a regular platform
C20_DropThroughOnlyWhileDown ==
    [][/\ InputStep =>
            \A i \in 1..Len(players) :
                players'[i].passing_through = at_input'[i].down
       /\ CollisionPass =>
            \A i \in 1..Len(players) :
                /\ players[i].passing_through = at_input[i].down
                /\ (/\ at_input[i].down
                    /\ Overlapped(players[i], current_level, FALSE) = {}
                    /\ ~OnFloor(players[i]))
                   => Motion(players'[i]) = Motion([players[i] EXCEPT !.on_ground = FALSE])
                /\ \A k \in 1..Len(level_platforms(current_level)) :
                       (~at_input[i].down /\ OverPassthrough(players[i], current_level, k))
                       => LandedAsOnRegular(players[i], players'[i], current_level, k)]_vars

\* in one collision pass player 1, holding down, has fallen through the
\* passthrough platform it was over, and player 2, not holding down, has
\* landed on the passthrough platform it was over
C20_Witness_OneDropsOneLands ==
    /\ phase = "pickup" /\ current_level = "Sky Islands" /\ Len(players) = 2
    /\ at_input[1].down /\ ~at_input[2].down
    /\ \E k \in 1..Len(level_platforms(current_level)) :
           /\ level_platforms(current_level)[k].platform_type = "passthrough"
           /\ is_landing(pre_pass[1], platform_rects[current_level][k])
           /\ overlap_x(get_rect(players[1]), platform_rects[current_level][k])
           /\ players[1].y = pre_pass[1].y /\ players[1].vy = pre_pass[1].vy
           /\ ~players[1].on_ground
    /\ \E k \in 1..Len(level_platforms(current_level)) :
           /\ level_platforms(current_level)[k].platform_type = "passthrough"
           /\ is_landing(pre_pass[2], platform_rects[current_level][k])
           /\ players[2].y = Px(platform_rects[current_level][k].top - PLAYER_RADIUS)
           /\ players[2].vy = 0 /\ players[2].on_ground

-----------------------------------------------------------------------------
(* Standing on a platform                                                   *)

\* player p read no key in its last handle_input
NoInput(p) == p.move_direction = 0 /\ ~p.jump_key_was_pressed /\ ~p.passing_through

\* player i stood on the ground at the start of the tick and the collision
\* pass of the tick found it at rest on top of platform k
StoodOn(i, k) ==
    LET pr == platform_rects[current_level][k]
    IN  /\ at_input[i].on_ground
        /\ pre_pass[i].vy = 0
        /\ pre_pass[i].y = Px(pr.top - PLAYER_RADIUS)
        /\ IntPx(pre_pass[i].x) + PLAYER_RADIUS > pr.left
        /\ IntPx(pre_pass[i].x) - PLAYER_RADIUS < Right(pr)

\* C21 as stated: a player that was landed on a platform by the collision
\* pass of the tick before and has read no key in this tick is on the
\* ground, and not below the platform, after the collision pass of this tick
C21_AsStated_StaysSupported ==
    phase = "pickup" =>
        \A i \in 1..Len(players) :
            \A k \in 1..Len(level_platforms(current_level)) :
                (/\ StoodOn(i, k)
                 /\ NoInput(players[i])
                 /\ ~players[i].is_frozen /\ ~players[i].is_dying)
                => /\ players[i].on_ground
                   /\ players[i].y <= Px(platform_rects[current_level][k].top - PLAYER_RADIUS)

-----------------------------------------------------------------------------
(* Players stay on the screen                                               *)

\* player p is inside the screen box
InScreen(p) ==
    /\ Px(PLAYER_RADIUS) <= p.x /\ p.x <= Px(SCREEN_WIDTH - PLAYER_RADIUS)
    /\ Px(PLAYER_RADIUS) <= p.y /\ p.y <= Px(SCREEN_HEIGHT - PLAYER_RADIUS)

\* C22: from the end of check_player_boundaries to the end of the tick (and
\* until the next tick starts) every player is inside the screen box,
\* PLAYER_RADIUS <= x <= SCREEN_WIDTH - PLAYER_RADIUS and PLAYER_RADIUS <= y
\* <= SCREEN_HEIGHT - PLAYER_RADIUS
C22_InsideScreenAfterBounds ==
    phase \in {"camera", "end", "input"} =>
        \A i \in 1..Len(players) : InScreen(players[i])

\* a player that integration had carried beyond the right edge of the
\* screen is back on the edge after check_player_boundaries, and a dying
\* player is on the floor line
C22_Witness_ClampedToScreen ==
    /\ phase = "camera"
    /\ \E i \in 1..Len(players) :
           /\ pre_pass[i].x > Px(SCREEN_WIDTH - PLAYER_RADIUS)
           /\ players[i].x = Px(SCREEN_WIDTH - PLAYER_RADIUS)
    /\ \E j \in 1..Len(players) :
           /\ players[j].is_dying
           /\ players[j].y = Px(SCREEN_HEIGHT - PLAYER_RADIUS)

-----------------------------------------------------------------------------
(* Side collisions with platforms                                           *)

\* player p, entering the collision pass, overlaps platform k of the level
\* in a way that is not a landing, with its centre below top + 10
SideOverlap(p, level, k) ==
    LET pl == level_platforms(level)[k]
        pr == platform_rects[level][k]
    IN  /\ ~(pl.platform_type = "passthrough" /\ p.passing_through)
        /\ colliderect(get_rect(p), pr)
        /\ ~is_landing(p, pr)
        /\ p.y > Px(pr.top + 10)

\* player q has been pushed out of platform k to a side, and stopped
PushedOut(q, level, k) ==
    LET pr == platform_rects[level][k]
    IN  /\ q.x \in {Px(pr.left - PLAYER_RADIUS), Px(Right(pr) + PLAYER_RADIUS)}
        /\ q.vx = 0
        /\ ~colliderect(get_rect(q), pr)

\* C23 as stated: a player that overlaps a platform, not as a landing and
\* with its centre below the platform top + 10, is pushed by the collision
\* pass to left - radius or right + radius, has vx == 0 and no longer
\* overlaps the platform
C23_AsStated_PushedOutSideways ==
    [][CollisionPass =>
        \A i \in 1..Len(players) :
            \A k \in 1..Len(level_platforms(current_level)) :
                SideOverlap(players[i], current_level, k)
                => PushedOut(players'[i], current_level, k)]_vars

-----------------------------------------------------------------------------
(* Edge-triggered jumps                                                     *)

\* player i has jumped in the input-handling step: jumps_left is one less
\* than the value handle_input tested (2 for a player on the ground)
Jumped(i) == players'[i].jumps_left = JumpsAtInput(players[i]) - 1

\* C24: a player jumps in a tick only if its jump key is pressed in that
\* tick, was not pressed in the tick before and the jumps_left that
\* handle_input tests (set back to 2 first if the player is on the ground)
\* is positive; a player whose key was already pressed in the tick before
\* does not jump, so a key held over consecutive ticks gives one jump
C24_JumpOnKeyDownEdge ==
    [][InputStep =>
        \A i \in 1..Len(players) :
            /\ Jumped(i) =>
                  /\ players'[i].jump_key_was_pressed
                  /\ ~players[i].jump_key_was_pressed
                  /\ JumpsAtInput(players[i]) > 0
            /\ players[i].jump_key_was_pressed =>
                  players'[i].jumps_left = JumpsAtInput(players[i])]_vars

\* a player in the air with one jump used and one left holds the jump key
\* in a second tick in a row and has not jumped again
C24_Witness_HeldKeyNoSecondJump ==
    /\ phase = "world"
    /\ \E i \in 1..Len(players) :
         /\ at_input[i].jump_key_was_pressed /\ players[i].jump_key_was_pressed
         /\ ~at_input[i].on_ground /\ at_input[i].jumps_left = 1
         /\ players[i].jumps_left = 1
         /\ ~players[i].is_frozen /\ ~players[i].is_dying

-----------------------------------------------------------------------------
(* Jumps from a jump platform                                               *)
(* Specification SpecJump: a two-player round of Classic from reset_game    *)
(* in frames of 0.1 s; both players are spawned over the jump platform at   *)
(* (150, 400) and fall onto it; each tick player 1 presses jump or not      *)

JumpTicks == 8

JumpKeys ==
    { [i \in 1..2 |-> Idle],
      [i \in 1..2 |-> IF i = 1 THEN Jump ELSE Idle] }

InitJump ==
    /\ AfterReset("Classic", <<200, 250>>)
    /\ ticks = 0
    /\ phase = "input"
    /\ dt = 0
    /\ state = "playing"
    /\ running = TRUE

NextJump ==
    \/ HandleInputAndUpdate(JumpKeys, {100}, {FALSE}, JumpTicks)
    \/ UpdateWorld({0}, {<< >>})
    \/ CheckCollisions
    \/ CheckPowerupCollisions
    \/ CheckObstacleCollisions
    \/ CheckPlayerBoundaries
    \/ CameraUpdate
    \/ EndOfUpdate({FALSE})

SpecJump == InitJump /\ [][NextJump]_vars

\* player i presses its jump key in the input-handling step, not having
\* pressed it in the tick before
PressesJump(i) == ~players[i].jump_key_was_pressed /\ players'[i].jump_key_was_pressed

\* player p rests on top of a jump platform of the level, with both jumps
RestsOnJumpPlatform(p, level) ==
    \E k \in 1..Len(level_platforms(level)) :
        /\ level_platforms(level)[k].platform_type = "jump"
        /\ p.y = Px(platform_rects[level][k].top - PLAYER_RADIUS)
        /\ p.vy = 0
        /\ overlap_x(get_rect(p), platform_rects[level][k])
        /\ JumpsAtInput(p) = 2

\* vy at the end of Player.update for a jump of the strength pct percent of
\* jump_force taken in the handle_input before it (gravity of one step added)
VyAfterJump(p, pct, d) == -MulDiv(p.jump_force, pct, 100) + GRAVITY * dt_seconds(d)

\* C25 as stated: a player resting on a jump platform that presses jump
\* with jumps_left == 2 jumps with jump_force * JUMP_BOOST, in whichever
\* tick of its stay; a jump taken with jumps_left == 1 has 0.8 * jump_force
C25_AsStated_BoostInEveryTick ==
    [][InputStep =>
        \A i \in 1..Len(players) :
            (PressesJump(i) /\ ~players[i].is_frozen /\ ~players[i].is_dying) =>
                /\ RestsOnJumpPlatform(players[i], current_level) =>
                      players'[i].vy = VyAfterJump(players[i], 10 * JUMP_BOOST_X10, dt')
                /\ (~players[i].on_ground /\ players[i].jumps_left = 1) =>
                      players'[i].vy = VyAfterJump(players[i], 80, dt')]_vars

-----------------------------------------------------------------------------
(* Obstacles are solid                                                      *)

\* C26 as stated: a player whose rect overlaps the rect of an obstacle, of
\* any type, when the obstacle pass starts does not overlap it when the
\* pass has ended
C26_AsStated_NoOverlapAfterEffect ==
    [][ObstaclePass =>
        \A i \in 1..Len(players) : \A k \in 1..Len(obstacles) :
            colliderect(get_rect(players[i]), obstacle_rect(obstacles[k]))
            => ~colliderect(get_rect(players'[i]), obstacle_rect(obstacles'[k]))]_vars

-----------------------------------------------------------------------------
(* Moving obstacles                                                         *)
(* Specification SpecMoving: a two-player round of Sky Islands from         *)
(* reset_game, nobody pressing a key, in frames of 0.1 s and stalled frames *)
(* of 0.4 s; the two moving obstacles of the level start at their origins   *)

MovingTicks == 9

MovingKeys == { [i \in 1..2 |-> Idle] }

MovingDts == {100, 400}

InitMoving ==
    /\ AfterReset("Sky Islands", <<150, 400>>)
    /\ ticks = 0
    /\ phase = "input"
    /\ dt = 0
    /\ state = "playing"
    /\ running = TRUE

NextMoving ==
    \/ HandleInputAndUpdate(MovingKeys, MovingDts, {FALSE}, MovingTicks)
    \/ UpdateWorld({0}, {<< >>})
    \/ CheckCollisions
    \/ CheckPowerupCollisions
    \/ CheckObstacleCollisions
    \/ CheckPlayerBoundaries
    \/ CameraUpdate
    \/ EndOfUpdate({FALSE})

SpecMoving == InitMoving /\ [][NextMoving]_vars

\* offset of moving obstacle o from its origin along its axis, and its
\* velocity along that axis
Offset(o) ==
    IF o.movement_direction = "horizontal" THEN o.x - Px(o.original_x)
    ELSE o.y - Px(o.original_y)
AxisVelocity(o) == IF o.movement_direction = "horizontal" THEN o.vx ELSE o.vy

\* C27 as stated: once Obstacle.update has run in a tick, a horizontal or
\* vertical moving obstacle is no farther from its origin than
\* movement_range plus one step of that tick, and while it is beyond the
\* range its velocity points back toward the origin
C27_AsStated_StaysWithinRange ==
    phase # "world" =>
        \A k \in 1..Len(obstacles) :
            (/\ obstacles[k].obstacle_type = "moving"
             /\ obstacles[k].movement_direction \in {"horizontal", "vertical"}) =>
                /\ Abs(Offset(obstacles[k])) <=
                       Px(obstacles[k].movement_range)
                       + Abs(MulDiv(AxisVelocity(obstacles[k]) * 60, dt, Scale))
                /\ Abs(Offset(obstacles[k])) > Px(obstacles[k].movement_range) =>
                       Offset(obstacles[k]) * AxisVelocity(obstacles[k]) < 0

-----------------------------------------------------------------------------
(* Platform-effect flags                                                    *)
(* Specification SpecFreeze: a two-player round of Classic from reset_game  *)
(* in frames of 0.1 s; player 1 falls onto the jump platform at (150, 400), *)
(* player 2 stays or runs right.  The game may be paused and resumed: the    *)
(* spawn interval is measured on the wall clock, which runs on during the   *)
(* pause, so that a freeze power-up can appear early in the round.          *)

FreezeTicks == 7

FreezeKeys ==
    { [i \in 1..2 |-> Idle],
      [i \in 1..2 |-> IF i = 2 THEN GoRight ELSE Idle] }

\* a freeze power-up on the way of player 2 when it runs off the platform
FreezeSpawnDraws == { << >>, <<358, 470, "freeze">> }

\* Game.handle_events: PAUSE_KEY pressed in a playing round and pressed
\* again after more than POWERUP_SPAWN_INTERVAL seconds
PauseAndResume ==
    /\ running /\ state = "playing" /\ phase = "input"
    /\ since_spawn <= POWERUP_SPAWN_INTERVAL
    /\ since_spawn' = POWERUP_SPAWN_INTERVAL + 1
    /\ UNCHANGED <<current_level, players, powerups, obstacles, camera, phase, dt, state,
                   running, ticks, tagged_ms, pass_tags, pre_pass, at_input, picked,
                   powerup_age>>

InitFreeze ==
    /\ AfterReset("Classic", <<200, 250>>)
    /\ ticks = 0
    /\ phase = "input"
    /\ dt = 0
    /\ state = "playing"
    /\ running = TRUE

NextFreeze ==
    \/ HandleInputAndUpdate(FreezeKeys, {100}, {FALSE}, FreezeTicks)
    \/ UpdateWorld({0}, FreezeSpawnDraws)
    \/ CheckCollisions
    \/ CheckPowerupCollisions
    \/ CheckObstacleCollisions
    \/ CheckPlayerBoundaries
    \/ CameraUpdate
    \/ EndOfUpdate({FALSE})
    \/ PauseAndResume

SpecFreeze == InitFreeze /\ [][NextFreeze]_vars

\* the platform-effect flag of player p for platforms of type t
EffectFlag(p, t) ==
    CASE t = "sticky" -> p.on_sticky_platform
      [] t = "jump" -> p.on_jump_platform
      [] t = "speed" -> p.on_speed_platform

\* C28 as stated: from the collision pass to the end of the tick a
\* platform-effect flag of a player is True only if the collision pass of
\* that tick landed the player on a platform of that type
C28_AsStated_FlagsOnlyFromThisTick ==
    phase \in {"pickup", "obstacle", "bounds", "camera", "end"} =>
        \A i \in 1..Len(players) : \A t \in {"sticky", "jump", "speed"} :
            EffectFlag(players[i], t) =>
                \E k \in LandingPlatforms(i) :
                    level_platforms(current_level)[k].platform_type = t

-----------------------------------------------------------------------------
(* Specification SpecDying: a two-player round of Sky Islands from          *)
(* reset_game in frames of 0.4 s; player 1 runs right and player 2 runs     *)
(* left, off the platforms and onto the lethal floor.  Once the spawn      *)
(* interval has passed a freeze may appear on the platform where a player   *)
(* respawns while the other one is dying.  Game.run calls Game.update       *)
(* again and again: a step of the update that can be taken is taken.        *)

DyingTicks == 40

DyingSpawnDraws == { << >>, <<400, 138, "freeze">> }

InitDying ==
    /\ AfterReset("Sky Islands", <<200, 250>>)
    /\ ticks = 0
    /\ phase = "input"
    /\ dt = 0
    /\ state = "playing"
    /\ running = TRUE

NextDying ==
    \/ HandleInputAndUpdate(RespawnKeys, {400}, {FALSE}, DyingTicks)
    \/ UpdateWorld({0}, DyingSpawnDraws)
    \/ CheckCollisions
    \/ CheckPowerupCollisions
    \/ CheckObstacleCollisions
    \/ CheckPlayerBoundaries
    \/ CameraUpdate
    \/ EndOfUpdate({FALSE})

SpecDying == InitDying /\ [][NextDying]_vars /\ WF_vars(NextDying)

\* the updates a dying player may need before it respawns: the 3 s of the
\* death timer and the 1.5 s of one freeze, in frames of 0.4 s
Patience == (3000 + POWERUP_FREEZE_MS) \div 400 + 2

\* player i goes through the dying branch of Player.update in this step
DyingUpdate(i) == InputStep /\ players[i].is_dying /\ ~players[i].is_frozen

\* the non-frozen simulated time (ms) player i has been dying for
DyingFor(i) == 3000 - players[i].death_timer

\* the death timer runs in every non-frozen update and the player respawns
\* in the update in which the timer reaches 0
TimerRuns ==
    [][\A i \in 1..2 :
          DyingUpdate(i) =>
              /\ players'[i].death_timer < players[i].death_timer
              /\ IF players[i].death_timer > dt_seconds(dt')
                 THEN /\ players'[i].is_dying
                      /\ players'[i].death_timer = players[i].death_timer - dt_seconds(dt')
                 ELSE ~players'[i].is_dying]_vars

\* a dying player keeps its timer outside the dying branch of its update
TimerKept ==
    [][\A i \in 1..2 :
          (players[i].is_dying /\ ~DyingUpdate(i)) =>
              /\ players'[i].is_dying
              /\ players'[i].death_timer = players[i].death_timer]_vars

\* a dying player that has the updates it needs ahead of it respawns
Respawns ==
    \A i \in 1..2 :
        (players[i].is_dying /\ ticks + Patience <= DyingTicks) ~> ~players[i].is_dying

\* C29 as stated, its bound: a player leaves the dying state after at most
\* 3 seconds of non-frozen simulated time
C29_AsStated_RespawnWithinThreeSeconds ==
    [][\A i \in 1..2 :
          (DyingUpdate(i) /\ ~players'[i].is_dying) =>
              DyingFor(i) + dt_seconds(dt') <= 3000]_vars

\* C29: every player that enters the dying state respawns when the updates
\* go on: the death timer of a dying player strictly decreases in every
\* update in which the player is not frozen, no other step changes it
\* (touching the lethal floor again does not restart it), and the player
\* leaves the dying state in the first non-frozen update at whose end it
\* has been dying for 3 seconds or more of non-frozen simulated time, i.e.
\* after less than 3 seconds plus one frame
C29_DyingPlayerRespawns ==
    /\ TimerRuns
    /\ TimerKept
    /\ [][\A i \in 1..2 :
            (DyingUpdate(i) /\ ~players'[i].is_dying) =>
                /\ DyingFor(i) + dt_seconds(dt') >= 3000
                /\ DyingFor(i) < 3000]_vars
    /\ Respawns

\* a dying player that was frozen for a while and has thawed touches the
\* lethal floor again, its timer where it was before the freeze
C29_Witness_TouchesFloorAgain ==
    /\ phase = "pickup"
    /\ \E i \in 1..2 :
         /\ players[i].is_dying /\ ~players[i].is_frozen
         /\ players[i].frozen_timer < 0
         /\ players[i].death_timer < 3000
         /\ OnFloor(pre_pass[i])
         /\ players[i].y = Px(SCREEN_HEIGHT - PLAYER_RADIUS)

-----------------------------------------------------------------------------
(* Shield and invisibility flags                                            *)

\* power-up k is a key of the active_powerups of player p
Active(p, k) == p.active_powerups[k] > 0

\* C30: in every state of the round, for every player, has_shield is True
\* exactly when 'shield' is a key of active_powerups and is_invisible is
\* True exactly when 'invisible' is a key of active_powerups
C30_FlagsMatchActivePowerups ==
    \A i \in 1..Len(players) :
        /\ players[i].has_shield <=> Active(players[i], "shield")
        /\ players[i].is_invisible <=> Active(players[i], "invisible")

\* a player that collected the invisibility, fell on the lethal floor and
\* is dying with the power-up and its flag still on
C30_Witness_InvisibleWhileDying ==
    \E i \in 1..Len(players) :
        /\ players[i].is_dying
        /\ players[i].is_invisible
        /\ Active(players[i], "invisible")

====
